---- MODULE Spec2Model ----
(***************************************************************************)
(* State-machine model of the project-management backend                   *)
(* (backend/app.py, backend/routes/*.py, backend/utils/auth.py, db.py).    *)
(*                                                                         *)
(* The database is the record db: one field per table the handlers touch,  *)
(* plus the serial id sequences.  The source declares no table constraint  *)
(* (no schema file, no FOREIGN KEY, no UNIQUE): the tables are modelled as *)
(* the handlers' statements use them, so every check the model makes is a  *)
(* check the handler code makes.                                           *)
(*                                                                         *)
(* A request is a record req with a program counter; every handler is a    *)
(* step relation  handler(r, d, t)  giving the configurations that follow  *)
(* configuration (r, d) at time t, one execute_query call per step.        *)
(* The specifications are workloads over the same handlers:                *)
(*   Spec        : organizations, projects and tasks are created, and      *)
(*                 organizations updated and deleted; requests run alone.  *)
(*   SpecAccount : as Spec, with task assignment and account deletion.     *)
(*   SpecCrash   : as SpecAccount, and one statement of a delete_account   *)
(*                 raises (execute_query rolls back and re-raises).        *)
(*   SpecAuth    : sign-up, login, profile update and the decorator with   *)
(*                 every kind of Authorization header, as time passes.     *)
(*   SpecConc    : sign-ups and profile updates run concurrently,          *)
(*                 interleaved statement by statement.                     *)
(*   SpecNorm    : the task normalisation of get_organization_projects     *)
(*                 over bounded task lists.                                *)
(***************************************************************************)
EXTENDS Integers, Sequences, FiniteSets, TLC

VARIABLES db, now, tokens, reqs, last, norm_in, norm_out, call, result

vars == <<db, now, tokens, reqs, last, norm_in, norm_out, call, result>>

(***************************************************************************)
(* Bounds of the model.                                                    *)
(***************************************************************************)
MaxUsers == 2
MaxOrgs == 2
MaxProjects == 2
MaxTasks == 2
MaxTime == 1
MaxInFlight == 2
MaxNormTasks == 2
MaxDbTasks == 2
MaxChecklistTasks == 1
MaxLocalTasks == 2
MaxProgressTasks == 5
MaxHits == 3
MaxPieces == 4

(***************************************************************************)
(* Program constants and value domains.                                    *)
(***************************************************************************)
\* SQL NULL / Python None for an id column (ids are serial, from 1).
NULL == 0
\* timedelta(days=1): the token lifetime, in days.
TokenDays == 1

UserIds == 1..MaxUsers
OrgIds == 1..MaxOrgs
ProjectIds == 1..MaxProjects
TaskIds == 1..MaxTasks

\* A key that is not in the request payload / not in the row.
Absent == "<absent>"
Emails == {"", "a@x"}
Passwords == {"pw1", "pw2"}
FullNames == {"fn"}

(***************************************************************************)
(* utils/auth.py                                                           *)
(***************************************************************************)
\* bcrypt: the hash is not the password; checkpw recomputes and compares.
hash_password(password) == <<"bcrypt", password>>

check_password(password, hashed) == hashed = <<"bcrypt", password>>

generate_token(user_id, t) ==
    [user_id |-> user_id, role |-> "project_manager", exp |-> t + TokenDays]

\* The Authorization header of a request:
\*   kind "none"      no Authorization header
\*   kind "nospace"   a header without a space (split(" ")[1] raises IndexError)
\*   kind "empty"     "Bearer " : the second word is the empty string
\*   kind "forged"    a token whose signature does not verify
\*   kind "signed"    a token generate_token issued (claims in .claims)
NoClaims == [user_id |-> NULL, role |-> "", exp |-> 0]

Headers ==
    {[kind |-> k, claims |-> NoClaims] : k \in {"none", "nospace", "empty"}}
    \cup {[kind |-> "forged", claims |-> generate_token(u, t)] :
             u \in UserIds, t \in {MaxTime}}
    \cup {[kind |-> "signed", claims |-> c] : c \in tokens}

\* jwt.decode: None for a bad signature or an expired token, else the claims.
DecodeExpiryIgnored(header, t) ==
    IF header.kind = "signed" THEN {header.claims} ELSE {}

decode_token(header, t) ==
    IF header.kind = "signed" /\ t < header.claims.exp
    THEN {header.claims}
    ELSE {}

\* The decorator: [ok, status, message, user_id].
token_required(header, t) ==
    IF header.kind = "nospace"
    THEN [ok |-> FALSE, status |-> 401, msg |-> "Invalid token format",
          user_id |-> NULL]
    ELSE IF header.kind \in {"none", "empty"}
    THEN [ok |-> FALSE, status |-> 401, msg |-> "Token is missing",
          user_id |-> NULL]
    ELSE IF decode_token(header, t) = {}
    THEN [ok |-> FALSE, status |-> 401, msg |-> "Invalid token",
          user_id |-> NULL]
    ELSE [ok |-> TRUE, status |-> 0, msg |-> "",
          user_id |-> header.claims.user_id]

(***************************************************************************)
(* Requests and configurations.                                            *)
(***************************************************************************)
Idle == [op |-> "idle", pc |-> "done"]

NewReq(op, user, a) ==
    [op |-> op, pc |-> "start", user |-> user, a |-> a,
     todo |-> {}, orgs |-> {}, cur |-> NULL, org |-> NULL, ctx |-> "",
     status |-> 0, msg |-> "", token |-> {}, body |-> {}]

Cfg(r, d) == [req |-> r, db |-> d]

Goto(r, d, pc) == Cfg([r EXCEPT !.pc = pc], d)

Ret(r, d, status, msg) ==
    Cfg([r EXCEPT !.pc = "done", !.status = status, !.msg = msg], d)

\* return jsonify(rows): the rows of the response body, as a set.
RetRows(r, d, rows) ==
    Cfg([r EXCEPT !.pc = "done", !.status = 200, !.body = rows], d)

EmptyDb ==
    [users |-> {}, organizations |-> {}, organization_members |-> {},
     projects |-> {}, project_members |-> {}, tasks |-> {},
     users_id_seq |-> 1, organizations_id_seq |-> 1,
     projects_id_seq |-> 1, tasks_id_seq |-> 1]

(***************************************************************************)
(* routes/auth_routes.py                                                   *)
(***************************************************************************)
\* signup_route with the existence check dropped.
SignupNoCheck(r, d, t) ==
    LET id == d.users_id_seq
        row == [id |-> id, email |-> r.a.email,
                password_hash |-> hash_password(r.a.password),
                full_name |-> r.a.full_name, role |-> "project_manager"]
    IN  {Cfg([r EXCEPT !.pc = "done", !.status = 200,
                       !.token = {generate_token(id, t)}],
             [d EXCEPT !.users = @ \cup {row}, !.users_id_seq = @ + 1])}

signup_route(r, d, t) ==
    CASE r.pc = "start" ->
           \* SELECT * FROM users WHERE email = %s
           LET existing_user == {u \in d.users : u.email = r.a.email}
           IN  IF existing_user # {}
               THEN {Ret(r, d, 400, "Email already registered")}
               ELSE {Goto(r, d, "insert")}
      [] r.pc = "insert" ->
           \* INSERT INTO users ... RETURNING id, email, full_name, role
           LET id == d.users_id_seq
               row == [id |-> id, email |-> r.a.email,
                       password_hash |-> hash_password(r.a.password),
                       full_name |-> r.a.full_name, role |-> "project_manager"]
           IN  {Cfg([r EXCEPT !.pc = "done", !.status = 200,
                              !.token = {generate_token(id, t)}],
                    [d EXCEPT !.users = @ \cup {row}, !.users_id_seq = @ + 1])}
      [] OTHER -> {}

\* login_route answering an unknown email with its own message.
LoginDistinct(r, d, t) ==
    LET user == {u \in d.users : u.email = r.a.email}
    IN  IF user = {}
        THEN {Ret(r, d, 404, "User not found")}
        ELSE {IF check_password(r.a.password, u.password_hash)
              THEN Cfg([r EXCEPT !.pc = "done", !.status = 200,
                                 !.token = {generate_token(u.id, t)}], d)
              ELSE Ret(r, d, 401, "Invalid credentials") : u \in user}

login_route(r, d, t) ==
    \* SELECT * FROM users WHERE email = %s ; user[0] is any row of the result
    LET user == {u \in d.users : u.email = r.a.email}
    IN  IF user = {}
        THEN {Ret(r, d, 401, "Invalid credentials")}
        ELSE {IF check_password(r.a.password, u.password_hash)
              THEN Cfg([r EXCEPT !.pc = "done", !.status = 200,
                                 !.token = {generate_token(u.id, t)}], d)
              ELSE Ret(r, d, 401, "Invalid credentials") : u \in user}

(***************************************************************************)
(* routes/user_routes.py                                                   *)
(***************************************************************************)
InternalError == "Internal server error occurred"

\* UPDATE users SET <update_parts> WHERE id = %s RETURNING ... ; user[0]
UpdateUsersStmt(r, d) ==
    LET set(u) ==
            [u EXCEPT
               !.full_name = IF r.a.full_name # Absent THEN r.a.full_name ELSE @,
               !.email = IF r.a.email # Absent THEN r.a.email ELSE @,
               !.password_hash = IF r.a.password \notin {Absent, ""}
                                 THEN hash_password(r.a.password) ELSE @]
        user == {u \in d.users : u.id = r.user}
        d2 == [d EXCEPT !.users = {IF u.id = r.user THEN set(u) ELSE u : u \in @}]
    IN  IF user = {} THEN Ret(r, d2, 500, InternalError)
        ELSE Ret(r, d2, 200, "")

update_user_profile_route(r, d, t) ==
    CASE r.pc = "start" ->
           IF r.a.email \notin {Absent, ""}
           THEN \* SELECT id FROM users WHERE email = %s AND id != %s
                LET existing == {u \in d.users :
                                    u.email = r.a.email /\ u.id # r.user}
                IN  IF existing # {}
                    THEN {Ret(r, d, 400, "Email already in use")}
                    ELSE {Goto(r, d, "update")}
           ELSE IF r.a.full_name = Absent /\ r.a.email = Absent
                   /\ r.a.password \in {Absent, ""}
           THEN {Ret(r, d, 400, "No fields to update")}
           ELSE {UpdateUsersStmt(r, d)}
      [] r.pc = "update" -> {UpdateUsersStmt(r, d)}
      [] OTHER -> {}

\* The three statements that remove project r.cur, and the loop around them.
\* exit is the pc that follows the loop.
NextProject(r, d, exit) ==
    IF r.todo = {}
    THEN {Goto(r, d, exit)}
    ELSE {Cfg([r EXCEPT !.pc = "del_tasks", !.cur = p, !.todo = @ \ {p}], d) :
             p \in r.todo}

\* The cascade with "DELETE FROM tasks WHERE project_id = %s" left out.
ProjectCascadeKeepsTasks(r, d, exit) ==
    CASE r.pc = "del_tasks" -> {Goto(r, d, "del_pmembers")}
      [] r.pc = "del_pmembers" ->
           {Goto(r, [d EXCEPT !.project_members =
                        {m \in @ : m.project_id # r.cur}], "del_project")}
      [] r.pc = "del_project" ->
           NextProject(r, [d EXCEPT !.projects = {p \in @ : p.id # r.cur}], exit)
      [] OTHER -> {}

ProjectCascade(r, d, exit) ==
    CASE r.pc = "del_tasks" ->
           \* DELETE FROM tasks WHERE project_id = %s
           {Goto(r, [d EXCEPT !.tasks = {k \in @ : k.project_id # r.cur}],
                 "del_pmembers")}
      [] r.pc = "del_pmembers" ->
           \* DELETE FROM project_members WHERE project_id = %s
           {Goto(r, [d EXCEPT !.project_members =
                        {m \in @ : m.project_id # r.cur}], "del_project")}
      [] r.pc = "del_project" ->
           \* DELETE FROM projects WHERE id = %s
           NextProject(r, [d EXCEPT !.projects = {p \in @ : p.id # r.cur}], exit)
      [] OTHER -> {}

InProjectCascade(r) == r.pc \in {"del_tasks", "del_pmembers", "del_project"}

\* SELECT p.id FROM projects p JOIN project_members pm ... WHERE pm.role =
\* 'manager' GROUP BY p.id HAVING COUNT(pm.user_id) = 1 AND MAX(CASE ...) = 1
SoloManagedProjects(d, user_id) ==
    {p.id : p \in {q \in d.projects :
        LET managers == {m \in d.project_members :
                            m.project_id = q.id /\ m.role = "manager"}
        IN  Cardinality(managers) = 1
            /\ \E m \in managers : m.user_id = user_id}}

\* SELECT o.id FROM organizations o JOIN organization_members om ... WHERE
\* om.role = 'admin' GROUP BY o.id HAVING COUNT(om.user_id) = 1 AND MAX(...) = 1
SoloAdminOrgs(d, user_id) ==
    {o.id : o \in {q \in d.organizations :
        LET admins == {m \in d.organization_members :
                          m.organization_id = q.id /\ m.role = "admin"}
        IN  Cardinality(admins) = 1
            /\ \E m \in admins : m.user_id = user_id}}

NextOrg(r, d) ==
    IF r.orgs = {}
    THEN {Goto(r, d, "rm_pm")}
    ELSE {Cfg([r EXCEPT !.pc = "org_projects", !.org = o, !.orgs = @ \ {o}], d) :
             o \in r.orgs}

delete_user_account_route(r, d, t) ==
    CASE r.pc = "start" ->
           \* UPDATE tasks SET assigned_to = NULL WHERE assigned_to = %s
           {Goto(r, [d EXCEPT !.tasks =
                        {IF k.assigned_to = r.user
                         THEN [k EXCEPT !.assigned_to = NULL] ELSE k : k \in @}],
                 "solo_projects")}
      [] r.pc = "solo_projects" ->
           NextProject([r EXCEPT !.todo = SoloManagedProjects(d, r.user),
                                 !.ctx = "solo"], d, "solo_orgs")
      [] InProjectCascade(r) /\ r.ctx = "solo" ->
           ProjectCascade(r, d, "solo_orgs")
      [] r.pc = "solo_orgs" ->
           NextOrg([r EXCEPT !.orgs = SoloAdminOrgs(d, r.user)], d)
      [] r.pc = "org_projects" ->
           \* SELECT id FROM projects WHERE organization_id = %s
           NextProject([r EXCEPT !.todo = {p.id : p \in {q \in d.projects :
                                              q.organization_id = r.org}},
                                 !.ctx = "org"], d, "org_members")
      [] InProjectCascade(r) /\ r.ctx = "org" ->
           ProjectCascade(r, d, "org_members")
      [] r.pc = "org_members" ->
           \* DELETE FROM organization_members WHERE organization_id = %s
           {Goto(r, [d EXCEPT !.organization_members =
                        {m \in @ : m.organization_id # r.org}], "org_row")}
      [] r.pc = "org_row" ->
           \* DELETE FROM organizations WHERE id = %s
           NextOrg(r, [d EXCEPT !.organizations = {o \in @ : o.id # r.org}])
      [] r.pc = "rm_pm" ->
           \* DELETE FROM project_members WHERE user_id = %s
           {Goto(r, [d EXCEPT !.project_members =
                        {m \in @ : m.user_id # r.user}], "rm_om")}
      [] r.pc = "rm_om" ->
           \* DELETE FROM organization_members WHERE user_id = %s
           {Goto(r, [d EXCEPT !.organization_members =
                        {m \in @ : m.user_id # r.user}], "rm_user")}
      [] r.pc = "rm_user" ->
           \* DELETE FROM users WHERE id = %s
           {Ret(r, [d EXCEPT !.users = {u \in @ : u.id # r.user}], 200,
                "User account deleted successfully")}
      [] OTHER -> {}

(***************************************************************************)
(* app.py : organizations                                                  *)
(***************************************************************************)
create_organization(r, d, t) ==
    CASE r.pc = "start" ->
           IF r.a.name = Absent
           THEN {Ret(r, d, 500, InternalError)}        \* data['name'] KeyError
           ELSE \* INSERT INTO organizations (name, description, created_by)
                LET id == d.organizations_id_seq
                    row == [id |-> id, name |-> r.a.name, created_by |-> r.user]
                IN  {Cfg([r EXCEPT !.pc = "add_admin", !.org = id],
                         [d EXCEPT !.organizations = @ \cup {row},
                                   !.organizations_id_seq = @ + 1])}
      [] r.pc = "add_admin" ->
           \* INSERT INTO organization_members (organization_id, user_id, role)
           {Ret(r, [d EXCEPT !.organization_members = @ \cup
                       {[organization_id |-> r.org, user_id |-> r.user,
                         role |-> "admin"]}], 200, "")}
      [] OTHER -> {}

\* SELECT o.* FROM organizations o JOIN organization_members om
\*   ON o.id = om.organization_id WHERE om.user_id = %s
get_organizations(r, d, t) ==
    CASE r.pc = "start" ->
           {RetRows(r, d,
               {o \in d.organizations :
                   \E om \in d.organization_members :
                       o.id = om.organization_id /\ om.user_id = r.user})}
      [] OTHER -> {}

\* The membership join left out: the organization is returned to anyone.
GetOrganizationAnyUser(r, d, t) ==
    CASE r.pc = "start" ->
           LET org == {o \in d.organizations : o.id = r.a.org_id}
           IN  IF org = {}
               THEN {Ret(r, d, 404,
                         "Organization not found or you do not have access")}
               ELSE {RetRows(r, d, org)}
      [] OTHER -> {}

\* SELECT o.* ... WHERE o.id = %s AND om.user_id = %s; 404 when no row.
get_organization(r, d, t) ==
    CASE r.pc = "start" ->
           LET org == {o \in d.organizations :
                          /\ o.id = r.a.org_id
                          /\ \E om \in d.organization_members :
                                o.id = om.organization_id
                                /\ om.user_id = r.user}
           IN  IF org = {}
               THEN {Ret(r, d, 404,
                         "Organization not found or you do not have access")}
               ELSE {RetRows(r, d, org)}
      [] OTHER -> {}

\* The check left out: every user passes.
AdminCheckSkipped(d, org_id, user_id) == {TRUE}

\* SELECT 1 FROM organization_members WHERE organization_id = %s
\*   AND user_id = %s AND role = 'admin'
admin_check(d, org_id, user_id) ==
    {m \in d.organization_members :
        m.organization_id = org_id /\ m.user_id = user_id /\ m.role = "admin"}

update_organization(r, d, t) ==
    CASE r.pc = "start" ->
           IF admin_check(d, r.a.org_id, r.user) = {}
           THEN {Ret(r, d, 403,
                     "You do not have permission to update this organization")}
           ELSE IF r.a.name = Absent
           THEN {Ret(r, d, 500, InternalError)}        \* data['name'] KeyError
           ELSE {Goto(r, d, "update")}
      [] r.pc = "update" ->
           \* UPDATE organizations SET name = %s, description = %s WHERE id = %s
           LET updated_org == {o \in d.organizations : o.id = r.a.org_id}
               d2 == [d EXCEPT !.organizations =
                         {IF o.id = r.a.org_id
                          THEN [o EXCEPT !.name = r.a.name] ELSE o : o \in @}]
           IN  IF updated_org = {}
               THEN {Ret(r, d2, 404, "Organization not found")}
               ELSE {Ret(r, d2, 200, "")}
      [] OTHER -> {}

\* delete_organization that forgets the organization's member rows.
DeleteOrganizationKeepsMembers(r, d, t) ==
    CASE r.pc = "start" ->
           IF admin_check(d, r.a.org_id, r.user) = {}
           THEN {Ret(r, d, 403,
                     "You do not have permission to delete this organization")}
           ELSE {Goto([r EXCEPT !.org = r.a.org_id], d, "org_projects")}
      [] r.pc = "org_projects" ->
           NextProject([r EXCEPT !.todo = {p.id : p \in {q \in d.projects :
                                              q.organization_id = r.org}}],
                       d, "org_members")
      [] InProjectCascade(r) -> ProjectCascade(r, d, "org_members")
      [] r.pc = "org_members" -> {Goto(r, d, "org_row")}
      [] r.pc = "org_row" ->
           {Ret(r, [d EXCEPT !.organizations = {o \in @ : o.id # r.org}], 200,
                "Organization deleted successfully")}
      [] OTHER -> {}

delete_organization(r, d, t) ==
    CASE r.pc = "start" ->
           IF admin_check(d, r.a.org_id, r.user) = {}
           THEN {Ret(r, d, 403,
                     "You do not have permission to delete this organization")}
           ELSE {Goto([r EXCEPT !.org = r.a.org_id], d, "org_projects")}
      [] r.pc = "org_projects" ->
           \* SELECT id FROM projects WHERE organization_id = %s
           NextProject([r EXCEPT !.todo = {p.id : p \in {q \in d.projects :
                                              q.organization_id = r.org}}],
                       d, "org_members")
      [] InProjectCascade(r) -> ProjectCascade(r, d, "org_members")
      [] r.pc = "org_members" ->
           \* DELETE FROM organization_members WHERE organization_id = %s
           {Goto(r, [d EXCEPT !.organization_members =
                        {m \in @ : m.organization_id # r.org}], "org_row")}
      [] r.pc = "org_row" ->
           \* DELETE FROM organizations WHERE id = %s
           {Ret(r, [d EXCEPT !.organizations = {o \in @ : o.id # r.org}], 200,
                "Organization deleted successfully")}
      [] OTHER -> {}

(***************************************************************************)
(* app.py : projects and tasks                                             *)
(***************************************************************************)
create_project(r, d, t) ==
    CASE r.pc = "start" ->
           \* INSERT INTO projects (organization_id, title, ..., created_by, ...)
           LET id == d.projects_id_seq
               row == [id |-> id, organization_id |-> r.a.org_id,
                       created_by |-> r.user]
           IN  {Cfg([r EXCEPT !.pc = "add_manager", !.cur = id],
                    [d EXCEPT !.projects = @ \cup {row},
                              !.projects_id_seq = @ + 1])}
      [] r.pc = "add_manager" ->
           \* INSERT INTO project_members (project_id, user_id, role)
           {Ret(r, [d EXCEPT !.project_members = @ \cup
                       {[project_id |-> r.cur, user_id |-> r.user,
                         role |-> "manager"]}], 201, "")}
      [] OTHER -> {}

\* A column holding SQL NULL (text columns; integer columns use NULL).
SqlNull == "<null>"

\* The optional keys of a task payload, all missing: Absent for a text key,
\* the empty set for a numeric key (else the set of its value).
NoTaskFields ==
    [description |-> Absent, status |-> Absent, priority |-> Absent,
     deadline |-> Absent, phase_name |-> Absent, estimated_duration |-> Absent,
     assigned_to |-> {}, phase_order |-> {}, task_order |-> {}]

\* data.get(key, default) for a numeric key.
GetOr(v, default) == IF v = {} THEN default ELSE CHOOSE x \in v : TRUE

\* The status default left out of create_task.
CreateTaskNoStatusDefault(r, d, t) ==
    CASE r.pc = "start" ->
           IF r.a.title \in {Absent, ""}
           THEN {Ret(r, d, 400, "Task title is required")}
           ELSE LET id == d.tasks_id_seq
                    row == [id |-> id, project_id |-> r.a.project_id,
                            title |-> r.a.title,
                            description |-> IF r.a.description = Absent
                                            THEN "" ELSE r.a.description,
                            status |-> IF r.a.status = Absent THEN SqlNull
                                       ELSE r.a.status,
                            priority |-> IF r.a.priority = Absent THEN "medium"
                                         ELSE r.a.priority,
                            phase_name |-> IF r.a.phase_name \in {Absent, ""}
                                           THEN SqlNull ELSE r.a.phase_name,
                            phase_order |-> GetOr(r.a.phase_order, 0),
                            task_order |-> GetOr(r.a.task_order, 0),
                            estimated_duration |->
                                IF r.a.estimated_duration \in {Absent, ""}
                                THEN SqlNull ELSE r.a.estimated_duration,
                            assigned_to |-> NULL, deadline |-> SqlNull,
                            updated_at |-> {}]
                IN  {Ret(r, [d EXCEPT !.tasks = @ \cup {row},
                                      !.tasks_id_seq = @ + 1], 201, "")}
      [] OTHER -> {}

create_task(r, d, t) ==
    CASE r.pc = "start" ->
           IF r.a.title \in {Absent, ""}
           THEN {Ret(r, d, 400, "Task title is required")}
           ELSE \* INSERT INTO tasks (project_id, title, description, status,
                \*   priority [, phase_name] [, phase_order] [, task_order]
                \*   [, estimated_duration]); a column left out takes its
                \* default (run_migration.py: phase_order 0, task_order 0,
                \* phase_name and estimated_duration none).
                LET id == d.tasks_id_seq
                    row == [id |-> id, project_id |-> r.a.project_id,
                            title |-> r.a.title,
                            description |-> IF r.a.description = Absent
                                            THEN "" ELSE r.a.description,
                            status |-> IF r.a.status = Absent THEN "todo"
                                       ELSE r.a.status,
                            priority |-> IF r.a.priority = Absent THEN "medium"
                                         ELSE r.a.priority,
                            phase_name |-> IF r.a.phase_name \in {Absent, ""}
                                           THEN SqlNull ELSE r.a.phase_name,
                            phase_order |-> GetOr(r.a.phase_order, 0),
                            task_order |-> GetOr(r.a.task_order, 0),
                            estimated_duration |->
                                IF r.a.estimated_duration \in {Absent, ""}
                                THEN SqlNull ELSE r.a.estimated_duration,
                            assigned_to |-> NULL, deadline |-> SqlNull,
                            updated_at |-> {}]
                IN  {Ret(r, [d EXCEPT !.tasks = @ \cup {row},
                                      !.tasks_id_seq = @ + 1], 201, "")}
      [] OTHER -> {}

\* The check left out: every user passes.
PermissionCheckSkipped(d, project_id, user_id) == {TRUE}

\* SELECT 1 FROM project_members WHERE project_id = %s AND user_id = %s
\*   AND role = 'manager'
permission_check(d, project_id, user_id) ==
    {m \in d.project_members :
        m.project_id = project_id /\ m.user_id = user_id /\ m.role = "manager"}

delete_project(r, d, t) ==
    CASE r.pc = "start" ->
           IF permission_check(d, r.a.project_id, r.user) = {}
           THEN {Ret(r, d, 403,
                     "You do not have permission to delete this project")}
           ELSE {Goto([r EXCEPT !.cur = r.a.project_id], d, "del_tasks")}
      [] InProjectCascade(r) ->
           {IF c.req.pc = "done"
            THEN Ret(c.req, c.db, 200, "Project deleted successfully")
            ELSE c : c \in ProjectCascade(r, d, "done")}
      [] OTHER -> {}

\* The SET list of update_task: title, updated_at = NOW(), and the keys
\* present in the payload.
UpdateTasksStmt(a, k, t) ==
    [k EXCEPT
       !.title = a.title,
       !.updated_at = {t},
       !.description = IF a.description # Absent THEN a.description ELSE @,
       !.status = IF a.status # Absent THEN a.status ELSE @,
       !.priority = IF a.priority # Absent THEN a.priority ELSE @,
       !.assigned_to = GetOr(a.assigned_to, @),
       !.deadline = IF a.deadline # Absent THEN a.deadline ELSE @,
       !.phase_name = IF a.phase_name # Absent THEN a.phase_name ELSE @,
       !.phase_order = GetOr(a.phase_order, @),
       !.task_order = GetOr(a.task_order, @)]

\* An update that writes the status column whether or not the payload has it.
UpdateTaskResetsStatus(r, d, t) ==
    CASE r.pc = "start" ->
           IF r.a.title = Absent
           THEN {Ret(r, d, 500, InternalError)}
           ELSE LET task == {k \in d.tasks : k.id = r.a.task_id}
                    d2 == [d EXCEPT !.tasks =
                              {IF k.id = r.a.task_id
                               THEN UpdateTasksStmt(
                                       [r.a EXCEPT !.status =
                                           IF @ = Absent THEN "todo" ELSE @],
                                       k, t)
                               ELSE k : k \in @}]
                IN  IF task = {} THEN {Ret(r, d2, 500, InternalError)}
                    ELSE {Ret(r, d2, 200, "")}
      [] OTHER -> {}

update_task(r, d, t) ==
    CASE r.pc = "start" ->
           IF r.a.title = Absent
           THEN {Ret(r, d, 500, InternalError)}        \* data['title'] KeyError
           ELSE \* UPDATE tasks SET title = %s, updated_at = NOW(), ...
                \* WHERE id = %s RETURNING ... ; task[0]
                LET task == {k \in d.tasks : k.id = r.a.task_id}
                    d2 == [d EXCEPT !.tasks =
                              {IF k.id = r.a.task_id
                               THEN UpdateTasksStmt(r.a, k, t)
                               ELSE k : k \in @}]
                IN  IF task = {} THEN {Ret(r, d2, 500, InternalError)}
                    ELSE {Ret(r, d2, 200, "")}
      [] OTHER -> {}

delete_task(r, d, t) ==
    CASE r.pc = "start" ->
           \* DELETE FROM tasks WHERE id = %s
           {Ret(r, [d EXCEPT !.tasks = {k \in @ : k.id # r.a.task_id}], 200,
                "Task deleted")}
      [] OTHER -> {}

(***************************************************************************)
(* Dispatch and running a handler.                                         *)
(***************************************************************************)
\* Every route but signup and login carries @token_required.
\* The routes decorated with @token_required.
ProtectedOps ==
    {"get_profile", "update_profile", "delete_account",
     "create_organization", "get_organizations", "get_organization",
     "update_organization", "delete_organization", "create_project",
     "get_organization_projects", "get_project", "create_task", "get_tasks",
     "delete_project", "update_task", "delete_task",
     "generate_project_roadmap", "generate_project_report",
     "save_tasks_progress"}

Protected(op) == op \in ProtectedOps

Steps(r, d, t) ==
    CASE r.op = "signup" -> signup_route(r, d, t)
      [] r.op = "login" -> login_route(r, d, t)
      [] r.op = "update_profile" -> update_user_profile_route(r, d, t)
      [] r.op = "delete_account" -> delete_user_account_route(r, d, t)
      [] r.op = "create_organization" -> create_organization(r, d, t)
      [] r.op = "get_organizations" -> get_organizations(r, d, t)
      [] r.op = "get_organization" -> get_organization(r, d, t)
      [] r.op = "update_organization" -> update_organization(r, d, t)
      [] r.op = "delete_organization" -> delete_organization(r, d, t)
      [] r.op = "create_project" -> create_project(r, d, t)
      [] r.op = "create_task" -> create_task(r, d, t)
      [] r.op = "delete_project" -> delete_project(r, d, t)
      [] r.op = "update_task" -> update_task(r, d, t)
      [] r.op = "delete_task" -> delete_task(r, d, t)
      [] OTHER -> {}

\* The request as the decorator hands it to the handler (or answers it).
Admit(op, h, a, t) ==
    IF ~Protected(op)
    THEN NewReq(op, NULL, a)
    ELSE LET tr == token_required(h, t)
         IN  IF tr.ok
             THEN NewReq(op, tr.user_id, a)
             ELSE [NewReq(op, NULL, a) EXCEPT
                      !.pc = "done", !.status = tr.status, !.msg = tr.msg]

\* The serial sequences stay within the model's bounds.
WithinBounds(d) ==
    /\ d.users_id_seq <= MaxUsers + 1
    /\ d.organizations_id_seq <= MaxOrgs + 1
    /\ d.projects_id_seq <= MaxProjects + 1
    /\ d.tasks_id_seq <= MaxTasks + 1

\* The handler answers at once, before any execute_query call.
NoStatement(r) ==
    /\ r.pc = "start"
    /\ \/ r.op = "create_organization" /\ r.a.name = Absent
       \/ r.op = "update_task" /\ r.a.title = Absent
       \/ r.op = "create_task" /\ r.a.title \in {Absent, ""}
       \/ r.op = "update_profile" /\ r.a.email = Absent
            /\ r.a.full_name = Absent /\ r.a.password \in {Absent, ""}

\* utils/db.py execute_query, the except branch: the statement raises, its
\* transaction is rolled back, the exception ends the request with a 500.
execute_query_raises(r, d) == Ret(r, d, 500, InternalError)

\* Every configuration the handler passes through from (r, d).
RECURSIVE Reach(_, _, _)
Reach(r, d, t) ==
    {Cfg(r, d)} \cup
    IF r.pc = "done" THEN {}
    ELSE UNION {Reach(c.req, c.db, t) :
                   c \in {x \in Steps(r, d, t) : WithinBounds(x.db)}}

\* The handler run to its response.
Completed(r, d, t) == {c \in Reach(r, d, t) : c.req.pc = "done"}

\* The handler run up to a statement that raises.
Crashed(r, d, t) ==
    {execute_query_raises(c.req, c.db) :
        c \in {x \in Reach(r, d, t) : x.req.pc # "done" /\ ~NoStatement(x.req)}}

NoHeader == [kind |-> "none", claims |-> NoClaims]

SignedHeaders == {[kind |-> "signed", claims |-> c] : c \in tokens}

\* The path parameter of a request (an organization, project or task id).
Target(r) ==
    CASE r.op \in {"get_organization", "update_organization",
                   "delete_organization", "create_project"} -> r.a.org_id
      [] r.op \in {"create_task", "delete_project"} -> r.a.project_id
      [] r.op \in {"update_task", "delete_task"} -> r.a.task_id
      [] OTHER -> NULL

\* The number of rows in the tables.
Rows(d) ==
    Cardinality(d.users) + Cardinality(d.organizations)
    + Cardinality(d.organization_members) + Cardinality(d.projects)
    + Cardinality(d.project_members) + Cardinality(d.tasks)

\* What the model keeps of the request answered last: who asked for what,
\* the response, the header's kind and expiry, whether a statement raised,
\* how many rows the request removed, and the payload of a task request.
Answer(r, h, crashed, removed) ==
    [op |-> r.op, user |-> r.user, id |-> Target(r),
     email |-> IF r.op \in {"signup", "login", "update_profile"}
               THEN r.a.email ELSE Absent,
     password |-> IF r.op \in {"signup", "login"} THEN r.a.password ELSE Absent,
     status |-> r.status, msg |-> r.msg, token |-> r.token,
     hkind |-> h.kind, exp |-> h.claims.exp, crashed |-> crashed,
     removed |-> removed, body |-> r.body,
     a |-> IF r.op \in {"create_task", "update_task"} THEN r.a
           ELSE [none |-> TRUE]]

NoAnswer ==
    Answer(NewReq("none", NULL, [none |-> TRUE]), NoHeader, FALSE, 0)

NoReqs == [i \in 1..MaxInFlight |-> Idle]

\* No function of the utilities is being called.
NoCall == [fn |-> "none"]

Init ==
    /\ db = EmptyDb
    /\ now = 0
    /\ tokens = {}
    /\ reqs = NoReqs
    /\ last = NoAnswer
    /\ norm_in = <<>>
    /\ norm_out = <<>>
    /\ call = NoCall
    /\ result = NoCall

\* One request, with a header of H and a payload of A, served alone.  With
\* raises, some statement of it may raise; with observed, the answer is kept
\* in last.
Serve(op, H, A, raises, observed) ==
    \E h \in H, a \in A :
        LET r0 == Admit(op, h, a, now)
        IN  \/ \E c \in Completed(r0, db, now) :
                 /\ db' = c.db
                 /\ tokens' = tokens \cup c.req.token
                 /\ last' = IF observed
                            THEN Answer(c.req, h, FALSE, Rows(db) - Rows(c.db))
                            ELSE NoAnswer
            \/ /\ raises
               /\ \E c \in Crashed(r0, db, now) :
                    /\ db' = c.db
                    /\ tokens' = tokens
                    /\ last' = IF observed
                               THEN Answer(c.req, h, TRUE, Rows(db) - Rows(c.db))
                               ELSE NoAnswer

Request(op, H, A, raises, observed) ==
    Serve(op, H, A, raises, observed)
    /\ UNCHANGED <<now, reqs, norm_in, norm_out, call, result>>

\* A day passes.
Tick ==
    /\ now < MaxTime
    /\ now' = now + 1
    /\ last' = NoAnswer
    /\ UNCHANGED <<db, tokens, reqs, norm_in, norm_out, call, result>>

(***************************************************************************)
(* Request payloads of the workloads.                                      *)
(***************************************************************************)
NoArgs == {[none |-> TRUE]}
SignupArgs ==
    [email : {"a@x", "b@x"}, password : {"pw1"}, full_name : FullNames]
OrgArgs == [org_id : OrgIds]
OrgUpdateArgs == [org_id : OrgIds, name : {"o2"}]
ProjectArgs == [project_id : ProjectIds]
\* A task payload: the path parameter and title with the optional keys of f.
TaskPayload(key, id, title, f) ==
    [k \in {key, "title"} \cup DOMAIN f |->
        IF k = key THEN id ELSE IF k = "title" THEN title ELSE f[k]]

TaskCreateArgs ==
    {TaskPayload("project_id", p, "t1", NoTaskFields) : p \in ProjectIds}
TaskAssignArgs ==
    {TaskPayload("task_id", k, "t1", [NoTaskFields EXCEPT !.assigned_to = {u}]) :
        k \in TaskIds, u \in UserIds}

(***************************************************************************)
(* Spec: the organization workload.  Accounts sign up, create              *)
(* organizations, projects and tasks, and update and delete organizations; *)
(* last keeps the answers of update_organization and delete_organization.  *)
(***************************************************************************)
Signup == Request("signup", {NoHeader}, SignupArgs, FALSE, FALSE)
CreateOrganization ==
    Request("create_organization", SignedHeaders, [name : {"o1"}], FALSE, FALSE)
CreateProject ==
    Request("create_project", SignedHeaders, OrgArgs, FALSE, FALSE)
CreateTask ==
    Request("create_task", SignedHeaders, TaskCreateArgs, FALSE, FALSE)
UpdateOrganization ==
    Request("update_organization", SignedHeaders, OrgUpdateArgs, FALSE, TRUE)
DeleteOrganization ==
    Request("delete_organization", SignedHeaders, OrgArgs, FALSE, TRUE)

Next ==
    \/ Signup \/ CreateOrganization \/ CreateProject \/ CreateTask
    \/ UpdateOrganization \/ DeleteOrganization

Spec == Init /\ [][Next]_vars

(***************************************************************************)
(* SpecAccount: the account workload.  Accounts sign up, create            *)
(* organizations, projects and tasks, assign tasks, and delete themselves; *)
(* last keeps the answers of delete_account.                               *)
(***************************************************************************)
AssignTask == Request("update_task", SignedHeaders, TaskAssignArgs, FALSE, FALSE)
DeleteAccount == Request("delete_account", SignedHeaders, NoArgs, FALSE, TRUE)

\* The n-th account signs up with the n-th email.
AccountSignup ==
    Request("signup", {NoHeader},
            {[email |-> IF db.users_id_seq = 1 THEN "a@x" ELSE "b@x",
              password |-> "pw1", full_name |-> "fn"]}, FALSE, FALSE)

NextAccount ==
    \/ AccountSignup \/ CreateOrganization \/ CreateProject \/ CreateTask
    \/ AssignTask \/ DeleteAccount

SpecAccount == Init /\ [][NextAccount]_vars

(***************************************************************************)
(* SpecStale: accounts sign up, delete themselves and create               *)
(* organizations with whatever token was issued so far; last keeps the     *)
(* answers of delete_account and create_organization.                      *)
(***************************************************************************)
StaleCreateOrganization ==
    Request("create_organization", SignedHeaders, [name : {"o1"}], FALSE, TRUE)

NextStale ==
    \/ AccountSignup \/ DeleteAccount \/ StaleCreateOrganization \/ Tick

SpecStale == Init /\ [][NextStale]_vars

(***************************************************************************)
(* SpecCrash: the account workload with one fault.  A statement of         *)
(* delete_account may raise (execute_query rolls that statement back and   *)
(* re-raises); the workload ends with the request that raised.             *)
(***************************************************************************)
Unfaulted == ~last.crashed

CrashSignup == Unfaulted /\ Signup
CrashCreateOrganization == Unfaulted /\ CreateOrganization
CrashCreateProject == Unfaulted /\ CreateProject
CrashCreateTask == Unfaulted /\ CreateTask
DeleteAccountQuietly ==
    Unfaulted /\ Request("delete_account", SignedHeaders, NoArgs, FALSE, FALSE)
DeleteAccountRaises ==
    /\ Unfaulted
    /\ Request("delete_account", SignedHeaders, NoArgs, TRUE, TRUE)
    /\ last'.crashed

CreateOrganizationRaises ==
    /\ Unfaulted
    /\ Request("create_organization", SignedHeaders, [name : {"o1"}], TRUE, TRUE)
    /\ last'.crashed

NextCrash ==
    \/ CrashSignup \/ CrashCreateOrganization \/ CrashCreateProject
    \/ CrashCreateTask \/ DeleteAccountQuietly \/ DeleteAccountRaises
    \/ CreateOrganizationRaises

SpecCrash == Init /\ [][NextCrash]_vars

(***************************************************************************)
(* SpecAuth: the authentication workload.  Sign-ups, logins, profile       *)
(* updates and organization creations with every kind of Authorization     *)
(* header, every protected route with a header the decorator refuses, and  *)
(* the passing of time.  last keeps every answer.                          *)
(***************************************************************************)
\* One payload for each protected route.
ArgsOf(op) ==
    CASE op = "update_profile" ->
           {[email |-> "a@x", password |-> Absent, full_name |-> Absent]}
      [] op = "create_organization" -> {[name |-> "o1"]}
      [] op = "update_organization" -> {[org_id |-> 1, name |-> "o2"]}
      [] op \in {"get_organization", "delete_organization", "create_project"} ->
           {[org_id |-> 1]}
      [] op = "create_task" -> {TaskPayload("project_id", 1, "t1", NoTaskFields)}
      [] op = "delete_project" -> {[project_id |-> 1]}
      [] op = "update_task" ->
           {TaskPayload("task_id", 1, "t1", NoTaskFields)}
      [] op = "delete_task" -> {[task_id |-> 1]}
      [] OTHER -> NoArgs

\* The headers the decorator must refuse at time t.
RefusedHeaders(t) ==
    {h \in Headers : h.kind # "signed" \/ h.claims.exp <= t}

AuthSignup ==
    Request("signup", {NoHeader},
            [email : Emails, password : {"pw1"}, full_name : FullNames],
            FALSE, TRUE)
AuthLogin ==
    Request("login", {NoHeader}, [email : Emails, password : Passwords],
            FALSE, TRUE)
AuthUpdateProfile ==
    Request("update_profile", Headers,
            [email : Emails \cup {Absent}, password : {Absent},
             full_name : {Absent}], FALSE, TRUE)
AuthCreateOrganization ==
    Request("create_organization", Headers, [name : {"o1"}], FALSE, TRUE)
AuthRefused ==
    \E op \in ProtectedOps :
        Request(op, RefusedHeaders(now), ArgsOf(op), FALSE, TRUE)

NextAuth ==
    \/ AuthSignup \/ AuthLogin \/ AuthUpdateProfile \/ AuthCreateOrganization
    \/ AuthRefused \/ Tick

SpecAuth == Init /\ [][NextAuth]_vars

(***************************************************************************)
(* SpecConc: sign-ups and profile updates served concurrently.  Every      *)
(* execute_query call is a transaction of its own, so the requests in      *)
(* flight interleave statement by statement.                               *)
(***************************************************************************)
AdmittedHeader(op) ==
    [kind |-> IF Protected(op) THEN "signed" ELSE "none", claims |-> NoClaims]

\* A request arrives: the decorator answers it, or it takes the first idle
\* worker.
Arrive(op, H, A) ==
    \E h \in H, a \in A :
        LET r0 == Admit(op, h, a, now)
        IN  IF r0.pc = "done"
            THEN /\ last' = Answer(r0, h, FALSE, 0)
                 /\ UNCHANGED <<db, now, tokens, reqs, norm_in, norm_out, call, result>>
            ELSE \E i \in 1..MaxInFlight :
                    /\ reqs[i].op = "idle"
                    /\ \A j \in 1..(i - 1) : reqs[j].op # "idle"
                    /\ reqs' = [reqs EXCEPT ![i] = r0]
                    /\ last' = NoAnswer
                    /\ UNCHANGED <<db, now, tokens, norm_in, norm_out, call, result>>

\* The request of worker i executes its next statement.
Statement(i) ==
    /\ reqs[i].op # "idle"
    /\ \E c \in Steps(reqs[i], db, now) :
          /\ WithinBounds(c.db)
          /\ db' = c.db
          /\ IF c.req.pc = "done"
             THEN /\ reqs' = [reqs EXCEPT ![i] = Idle]
                  /\ tokens' = tokens \cup c.req.token
                  /\ last' = Answer(c.req, AdmittedHeader(c.req.op), FALSE,
                                    Rows(db) - Rows(c.db))
             ELSE /\ reqs' = [reqs EXCEPT ![i] = c.req]
                  /\ last' = NoAnswer
                  /\ UNCHANGED tokens
    /\ UNCHANGED <<now, norm_in, norm_out, call, result>>

ConcSignup ==
    Arrive("signup", {NoHeader},
           [email : Emails, password : {"pw1"}, full_name : FullNames])
ConcUpdateProfile ==
    Arrive("update_profile", SignedHeaders \cup {NoHeader},
           [email : Emails \cup {Absent, "b@x"}, password : {Absent},
            full_name : {Absent}])
ConcStatement == \E i \in 1..MaxInFlight : Statement(i)

NextConc == ConcSignup \/ ConcUpdateProfile \/ ConcStatement

SpecConc == Init /\ [][NextConc]_vars

(***************************************************************************)
(* SpecRead: the organization reads.  Organizations are created and        *)
(* deleted, accounts are deleted, and any user with a token lists the      *)
(* organizations or reads one of them.                                     *)
(***************************************************************************)
ReadSignup == Request("signup", {NoHeader}, SignupArgs, FALSE, FALSE)
ReadCreateOrganization ==
    Request("create_organization", SignedHeaders, [name : {"o1"}], FALSE, FALSE)
ReadCreateProject ==
    Request("create_project", SignedHeaders, OrgArgs, FALSE, FALSE)
ReadDeleteOrganization ==
    Request("delete_organization", SignedHeaders, OrgArgs, FALSE, FALSE)
ReadDeleteAccount ==
    Request("delete_account", SignedHeaders, NoArgs, FALSE, FALSE)
GetOrganizations ==
    Request("get_organizations", SignedHeaders, NoArgs, FALSE, TRUE)
GetOrganization ==
    Request("get_organization", SignedHeaders, OrgArgs, FALSE, TRUE)

NextRead ==
    \/ ReadSignup \/ ReadCreateOrganization \/ ReadCreateProject
    \/ ReadDeleteOrganization \/ ReadDeleteAccount
    \/ GetOrganizations \/ GetOrganization

SpecRead == Init /\ [][NextRead]_vars

(***************************************************************************)
(* SpecProject: the project workload.  Accounts sign up and create         *)
(* organizations and tasks; last keeps the answers of create_project and   *)
(* delete_project.                                                         *)
(***************************************************************************)
ProjCreateProject ==
    Request("create_project", SignedHeaders, OrgArgs, FALSE, TRUE)
ProjDeleteProject ==
    Request("delete_project", SignedHeaders, ProjectArgs, FALSE, TRUE)

NextProjectWorkload ==
    \/ AccountSignup \/ CreateOrganization \/ CreateTask
    \/ ProjCreateProject \/ ProjDeleteProject

SpecProject == Init /\ [][NextProjectWorkload]_vars

(***************************************************************************)
(* SpecTask: the task workload.  Accounts sign up, create tasks with and   *)
(* without the optional keys and update them with and without a title;     *)
(* last keeps every answer of create_task and update_task.                 *)
(***************************************************************************)
\* Payloads with none, one or all of the keys create_task has defaults for.
CreateFieldChoices ==
    {NoTaskFields,
     [NoTaskFields EXCEPT !.status = "in_progress"],
     [NoTaskFields EXCEPT !.priority = "high"],
     [NoTaskFields EXCEPT !.phase_order = {2}],
     [NoTaskFields EXCEPT !.task_order = {3}],
     [NoTaskFields EXCEPT !.status = "in_progress", !.priority = "high",
                          !.phase_order = {2}, !.task_order = {3}]}

TaskCreate ==
    Request("create_task", SignedHeaders,
            {TaskPayload("project_id", 1, title, f) :
                title \in {Absent, "", "t1"}, f \in CreateFieldChoices},
            FALSE, TRUE)
TaskUpdate ==
    Request("update_task", SignedHeaders,
            {TaskPayload("task_id", k, title,
                         [NoTaskFields EXCEPT !.status = st]) :
                k \in TaskIds, title \in {Absent, "t2"},
                st \in {Absent, "completed"}},
            FALSE, TRUE)

NextTask == AccountSignup \/ TaskCreate \/ TaskUpdate

SpecTask == Init /\ [][NextTask]_vars

(***************************************************************************)
(* SpecTaskConc: concurrent task updates.  One account has created two     *)
(* tasks; update_task requests arrive while no task has been updated yet,  *)
(* at most MaxInFlight of them, and run statement by statement as time     *)
(* passes.  last keeps every answer.                                       *)
(***************************************************************************)
\* The database a request leaves behind when it is served alone at time 0.
After(op, h, a, d) ==
    (CHOOSE c \in Completed(Admit(op, h, a, 0), d, 0) : TRUE).db

FirstToken == generate_token(1, 0)

\* Sign-up of the first account, then two create_task with a bare title.
TwoTasksDb ==
    LET h  == [kind |-> "signed", claims |-> FirstToken]
        a  == TaskPayload("project_id", 1, "t1", NoTaskFields)
        d1 == After("signup", NoHeader,
                    [email |-> "a@x", password |-> "pw1", full_name |-> "fn"],
                    EmptyDb)
    IN  After("create_task", h, a, After("create_task", h, a, d1))

InitTaskConc ==
    /\ db = TwoTasksDb
    /\ now = 0
    /\ tokens = {FirstToken}
    /\ reqs = NoReqs
    /\ last = NoAnswer
    /\ norm_in = <<>>
    /\ norm_out = <<>>
    /\ call = NoCall
    /\ result = NoCall

\* Payloads with every subset of the optional keys of update_task.
RichUpdates ==
    {TaskPayload("task_id", k, "t2", f) :
        k \in TaskIds,
        f \in [description : {Absent, "d"}, status : {Absent, "completed"},
               priority : {Absent, "high"}, deadline : {Absent, "2024-01-31"},
               phase_name : {Absent, "p"}, estimated_duration : {Absent},
               assigned_to : {{}, {1}}, phase_order : {{}, {2}},
               task_order : {{}, {3}}]}

\* The payloads of an update that arrives while another is in flight.
PairUpdates ==
    {TaskPayload("task_id", k, "t3", f) :
        k \in TaskIds,
        f \in {NoTaskFields,
               [NoTaskFields EXCEPT !.status = "in_progress"],
               [NoTaskFields EXCEPT !.status = "in_progress",
                                    !.priority = "low", !.phase_order = {5}]}}

ConcUpdateTask ==
    /\ \A k \in db.tasks : k.updated_at = {}
    /\ Arrive("update_task", SignedHeaders,
              IF \A i \in 1..MaxInFlight : reqs[i].op = "idle"
              THEN RichUpdates ELSE PairUpdates)

TaskConcStatement == \E i \in 1..MaxInFlight : Statement(i)

NextTaskConc == ConcUpdateTask \/ TaskConcStatement \/ Tick

SpecTaskConc == InitTaskConc /\ [][NextTaskConc]_vars

(***************************************************************************)
(* SpecNorm: the task normalisation of get_organization_projects           *)
(* (include_tasks=true) over every list of incoming task mappings.         *)
(* A task mapping has status (Absent: no such key) and completed (the      *)
(* empty set: no such key, else the set of its value).                     *)
(***************************************************************************)
TaskStatuses == {Absent, "completed", "in_progress", "todo", "pending"}
TaskMappings == [status : TaskStatuses, completed : {{}, {TRUE}, {FALSE}}]

\* The body of "for task in tasks" (app.py lines 359-375).
NormalizeTask(task) ==
    IF task.status # Absent
    THEN IF task.status = "completed"
         THEN [task EXCEPT !.completed = {TRUE}]
         ELSE IF task.completed = {}
         THEN [task EXCEPT !.completed = {FALSE}]
         ELSE task
    ELSE IF task.completed = {TRUE}
    THEN [task EXCEPT !.status = "completed"]
    ELSE [status |-> "pending", completed |-> {FALSE}]

TaskLists == UNION {[1..n -> TaskMappings] : n \in 1..MaxNormTasks}

InitNorm ==
    /\ db = EmptyDb
    /\ now = 0
    /\ tokens = {}
    /\ reqs = NoReqs
    /\ last = NoAnswer
    /\ norm_in \in TaskLists
    /\ norm_out = <<>>
    /\ call = NoCall
    /\ result = NoCall

get_organization_projects ==
    /\ norm_out = <<>>
    /\ norm_out' = [i \in DOMAIN norm_in |-> NormalizeTask(norm_in[i])]
    /\ UNCHANGED <<db, now, tokens, reqs, last, norm_in, call, result>>

NextNorm == get_organization_projects

SpecNorm == InitNorm /\ [][NextNorm]_vars

(***************************************************************************)
(* SpecAi: utils/ai_service.py against every outcome of the provider.      *)
(* A JSON value is a record tagged str, num, null, list (a sequence q) or  *)
(* dict (a function d from keys to values); a Python expression evaluates  *)
(* to Ok(value) or to Raise(exception).                                    *)
(***************************************************************************)
JStr(x) == [t |-> "str", s |-> x]
JNum == [t |-> "num"]
JNull == [t |-> "null"]
JList(q) == [t |-> "list", q |-> q]
JDict(f) == [t |-> "dict", d |-> f]
NoKeys == [k \in {} |-> JNull]
One(k, v) == [x \in {k} |-> v]

Ok(v) == [ok |-> TRUE, v |-> v]
Raise(e) == [ok |-> FALSE, exc |-> e]

\* key in x, for a string key.  The strings of the model contain a key only
\* when they are the key.
PyIn(key, x) ==
    CASE x.t = "dict" -> Ok(key \in DOMAIN x.d)
      [] x.t = "list" -> Ok(\E i \in DOMAIN x.q : x.q[i] = JStr(key))
      [] x.t = "str" -> Ok(x.s = key)
      [] OTHER -> Raise("TypeError")

\* x[key], for a string key.
PyKey(x, key) ==
    IF x.t = "dict"
    THEN IF key \in DOMAIN x.d THEN Ok(x.d[key]) ELSE Raise("KeyError")
    ELSE Raise("TypeError")

\* x[0].
PyFirst(x) ==
    CASE x.t = "dict" -> Raise("KeyError")
      [] x.t = "list" -> IF Len(x.q) > 0 THEN Ok(x.q[1]) ELSE Raise("IndexError")
      [] x.t = "str" -> IF x.s # "" THEN Ok(JStr("<char>")) ELSE Raise("IndexError")
      [] OTHER -> Raise("TypeError")

\* x['choices'][0]['text'].
ChoicesText(x) ==
    LET c == PyKey(x, "choices")
    IN  IF ~c.ok THEN c
        ELSE LET i == PyFirst(c.v)
             IN  IF ~i.ok THEN i ELSE PyKey(i.v, "text")

\* The else branch of extract_text_from_api_response: a text key at the top
\* level, else in a nested mapping, else ValueError; result.values() of a
\* value that is no mapping is an AttributeError.
AnyText(x) ==
    LET c == PyIn("text", x)
    IN  IF ~c.ok THEN c
        ELSE IF c.v THEN PyKey(x, "text")
        ELSE IF x.t # "dict" THEN Raise("AttributeError")
        ELSE LET nested == {k \in DOMAIN x.d :
                               x.d[k].t = "dict" /\ "text" \in DOMAIN x.d[k].d}
             IN  IF nested # {}
                 THEN Ok(x.d[CHOOSE k \in nested : TRUE].d["text"])
                 ELSE Raise("ValueError")

Caught == {"KeyError", "IndexError", "TypeError"}

extract_text_from_api_response(x) ==
    LET c1 == PyIn("choices", x)
        body ==
            IF ~c1.ok THEN c1
            ELSE IF c1.v THEN ChoicesText(x)
            ELSE IF ~PyIn("output", x).v THEN AnyText(x)
            ELSE LET o == PyKey(x, "output")
                 IN  IF ~o.ok THEN o
                     ELSE LET c3 == PyIn("choices", o.v)
                          IN  IF ~c3.ok THEN c3
                              ELSE IF c3.v THEN ChoicesText(o.v)
                              ELSE AnyText(x)
    IN  IF ~body.ok /\ body.exc \in Caught
        THEN Ok(JStr("Error processing AI response"))
        ELSE body

\* What a function of the service hands to its caller.
Returns(content, sent) == [raised |-> FALSE, content |-> content, sent |-> sent]

ConfigurationError == JStr("API Configuration Error")
GenerationError == JStr("Error in Roadmap Generation")

\* generate_roadmap from the try statement on; key: TOGETHER_API_KEY is set;
\* o: what requests.post and response.json() give.
generate_roadmap(key, o) ==
    IF ~key THEN Returns(ConfigurationError, FALSE)
    ELSE IF o.kind = "network_error" THEN Returns(GenerationError, TRUE)
    ELSE IF o.status # 200 THEN Returns(JStr("API Error"), TRUE)
    ELSE IF ~o.json.ok THEN Returns(GenerationError, TRUE)
    ELSE LET x == extract_text_from_api_response(o.json.v)
         IN  IF ~x.ok THEN Returns(GenerationError, TRUE)
             ELSE Returns(x.v, TRUE)

\* re.search(r'\[Roadmap\](.*?)(?:$|\[|<end>)') and strip, on the strings of
\* the model.
RoadmapSection(x) == IF x = "[Roadmap] plan" THEN "plan" ELSE x

\* generate_roadmap_with_custom_prompt for a non-empty prompt.  len() of a
\* number or None and re.search on a value that is no string are TypeErrors.
generate_roadmap_with_custom_prompt(key, o) ==
    IF ~key THEN Returns(ConfigurationError, FALSE)
    ELSE IF o.kind = "network_error" THEN Returns(JStr("API Request Error"), TRUE)
    ELSE IF o.status # 200 THEN Returns(JStr("API Error"), TRUE)
    ELSE IF ~o.json.ok THEN Returns(JStr("API Request Error"), TRUE)
    ELSE LET x == extract_text_from_api_response(o.json.v)
         IN  IF ~x.ok THEN Returns(GenerationError, TRUE)
             ELSE IF x.v.t # "str"
             THEN Returns(JStr("Error processing AI response"), TRUE)
             ELSE Returns(JStr(RoadmapSection(x.v.s)), TRUE)

\* The responses of the provider the model draws from.
Texts == {JStr("plan"), JStr("[Roadmap] plan"), JNull, JNum}
ChoiceItems == {JDict(One("text", x)) : x \in Texts} \cup {JDict(NoKeys), JStr("x")}
ChoicesValues ==
    {JList(<<>>), JNull, JDict(NoKeys)} \cup {JList(<<c>>) : c \in ChoiceItems}
Bodies ==
    {JDict(One("choices", c)) : c \in ChoicesValues}
    \cup {JDict(One("output", JDict(One("choices", c)))) : c \in ChoicesValues}
    \cup {JDict(One("output", x)) : x \in {JNull, JStr("x"), JDict(NoKeys)}}
    \cup {JDict(One("text", x)) : x \in Texts}
    \cup {JDict(One("data", JDict(One("text", x)))) : x \in Texts}
    \cup {JDict(NoKeys), JList(<<>>), JStr("choices"), JStr("x"), JNum, JNull}

ProviderOutcomes ==
    {[kind |-> "network_error"]}
    \cup {[kind |-> "response", status |-> 500, json |-> Ok(JDict(NoKeys))]}
    \cup {[kind |-> "response", status |-> 200, json |-> j] :
             j \in {Ok(b) : b \in Bodies} \cup {Raise("JSONDecodeError")}}

InitAi ==
    /\ db = EmptyDb
    /\ now = 0
    /\ tokens = {}
    /\ reqs = NoReqs
    /\ last = NoAnswer
    /\ norm_in = <<>>
    /\ norm_out = <<>>
    /\ \/ call \in [fn : {"generate_roadmap",
                          "generate_roadmap_with_custom_prompt"},
                    key : BOOLEAN, outcome : ProviderOutcomes]
       \/ call \in [fn : {"project_complexity"}, high_count : 0..MaxHits,
                    medium_count : 0..MaxHits, low_count : 0..MaxHits]
    /\ result = NoCall

GenerateRoadmap ==
    /\ result = NoCall
    /\ call.fn = "generate_roadmap"
    /\ result' = generate_roadmap(call.key, call.outcome)
    /\ UNCHANGED <<db, now, tokens, reqs, last, norm_in, norm_out, call>>

GenerateRoadmapWithCustomPrompt ==
    /\ result = NoCall
    /\ call.fn = "generate_roadmap_with_custom_prompt"
    /\ result' = generate_roadmap_with_custom_prompt(call.key, call.outcome)
    /\ UNCHANGED <<db, now, tokens, reqs, last, norm_in, norm_out, call>>

\* The complexity analysis of generate_roadmap, from the number of keywords
\* of each list that occur in the combined text.
ComplexityByMostHits(high_count, medium_count, low_count) ==
    IF high_count > medium_count /\ high_count > low_count THEN "high"
    ELSE IF low_count > high_count /\ low_count > medium_count THEN "low"
    ELSE "medium"

project_complexity(high_count, medium_count, low_count) ==
    IF high_count > medium_count + low_count THEN "high"
    ELSE IF low_count > high_count + medium_count THEN "low"
    ELSE "medium"

AnalyzeComplexity ==
    /\ result = NoCall
    /\ call.fn = "project_complexity"
    /\ result' = [fn |-> "project_complexity",
                  project_complexity |->
                      project_complexity(call.high_count, call.medium_count,
                                         call.low_count)]
    /\ UNCHANGED <<db, now, tokens, reqs, last, norm_in, norm_out, call>>

NextAi == GenerateRoadmap \/ GenerateRoadmapWithCustomPrompt \/ AnalyzeComplexity

SpecAi == InitAi /\ [][NextAi]_vars

(***************************************************************************)
(* generate_project_report: the task statistics of the executive summary.  *)
(* A task is a JSON value: a row of the tasks table is a mapping with a    *)
(* status key, an entry of tasks_checklist or of the localStorage list is  *)
(* whatever json.loads produced.  A quotient of two integers is kept as    *)
(* the pair [num, den] of its numerator and denominator.                   *)
(***************************************************************************)
JBool(b) == [t |-> "bool", b |-> b]

\* bool(x), of a value that carries its content in the model.
Truthy(x) ==
    CASE x.t = "bool" -> x.b
      [] x.t = "str" -> x.s # ""
      [] x.t = "null" -> FALSE
      [] x.t = "list" -> Len(x.q) > 0
      [] x.t = "dict" -> DOMAIN x.d # {}

\* x.get(key).
PyGet(x, key) ==
    IF x.t = "dict"
    THEN Ok(IF key \in DOMAIN x.d THEN x.d[key] ELSE JNull)
    ELSE Raise("AttributeError")

\* if 'completed' not in task: task['completed'] = False
EnsureCompleted(task) ==
    LET c == PyIn("completed", task)
    IN  IF ~c.ok THEN c
        ELSE IF c.v THEN Ok(task)
        ELSE IF task.t # "dict" THEN Raise("TypeError")
        ELSE Ok(JDict([k \in DOMAIN task.d \cup {"completed"} |->
                         IF k = "completed" THEN JBool(FALSE) ELSE task.d[k]]))

\* The counter that the loop over all_tasks increments for a task.
ClassifyCompletedFirst(task) ==
    LET c == PyIn("completed", task)
    IN  IF ~c.ok THEN c
        ELSE IF c.v
        THEN LET v == PyKey(task, "completed")
             IN  IF ~v.ok THEN v
                 ELSE Ok(IF Truthy(v.v) THEN "completed" ELSE "todo")
        ELSE Ok("todo")

Classify(task) ==
    LET s == PyIn("status", task)
    IN  IF ~s.ok THEN s
        ELSE IF s.v
        THEN LET v == PyKey(task, "status")
             IN  IF ~v.ok THEN v
                 ELSE Ok(IF v.v = JStr("completed") THEN "completed"
                         ELSE IF v.v = JStr("in_progress") THEN "in_progress"
                         ELSE "todo")
        ELSE IF PyIn("completed", task).v
        THEN LET v == PyKey(task, "completed")
             IN  IF ~v.ok THEN v
                 ELSE Ok(IF Truthy(v.v) THEN "completed" ELSE "todo")
        ELSE Ok("todo")

\* if local_tasks and isinstance(local_tasks, list) and len(local_tasks) > 0
UsesLocalTasks(local_tasks) ==
    local_tasks.t = "list" /\ Len(local_tasks.q) > 0

CountOf(all_tasks, c) ==
    Cardinality({i \in DOMAIN all_tasks : Classify(all_tasks[i]) = Ok(c)})

TotalIgnoresLocalTasks(all_tasks, local_tasks) == Len(all_tasks)

total_tasks(all_tasks, local_tasks) ==
    IF UsesLocalTasks(local_tasks) THEN Len(local_tasks.q) ELSE Len(all_tasks)

completed_tasks(all_tasks, local_tasks) ==
    IF UsesLocalTasks(local_tasks)
    THEN Cardinality({i \in DOMAIN local_tasks.q :
                         Truthy(PyGet(local_tasks.q[i], "completed").v)})
    ELSE CountOf(all_tasks, "completed")

in_progress_tasks(all_tasks, local_tasks) ==
    IF UsesLocalTasks(local_tasks) THEN 0 ELSE CountOf(all_tasks, "in_progress")

todo_tasks(all_tasks, local_tasks) ==
    IF UsesLocalTasks(local_tasks)
    THEN total_tasks(all_tasks, local_tasks)
            - completed_tasks(all_tasks, local_tasks)
    ELSE CountOf(all_tasks, "todo")

\* (completed_tasks / total_tasks) * 100, and 0 when there is no task.
progress_percentage(total, completed) ==
    IF total > 0 THEN [num |-> completed * 100, den |-> total]
    ELSE [num |-> 0, den |-> 1]

\* The exceptions that counting raises: they end the request in the
\* handler's except clause, and no report is made.
CountingRaises(all_tasks, local_tasks) ==
    IF UsesLocalTasks(local_tasks)
    THEN {PyGet(local_tasks.q[i], "completed").exc :
            i \in {j \in DOMAIN local_tasks.q :
                     ~PyGet(local_tasks.q[j], "completed").ok}}
    ELSE {Classify(all_tasks[i]).exc :
            i \in {j \in DOMAIN all_tasks : ~Classify(all_tasks[j]).ok}}

\* From the three task sources to the statistics of the report.
task_statistics(tasks_from_db, tasks_from_checklist, local_tasks) ==
    LET ensured == [i \in DOMAIN tasks_from_checklist |->
                       EnsureCompleted(tasks_from_checklist[i])]
    IN  IF \E i \in DOMAIN ensured : ~ensured[i].ok
        THEN Raise("TypeError")
        ELSE LET all_tasks ==
                     tasks_from_db \o [i \in DOMAIN ensured |-> ensured[i].v]
                 total == total_tasks(all_tasks, local_tasks)
                 completed == completed_tasks(all_tasks, local_tasks)
             IN  IF CountingRaises(all_tasks, local_tasks) # {}
                 THEN Raise(CHOOSE e \in CountingRaises(all_tasks, local_tasks) : TRUE)
                 ELSE Ok([total_tasks |-> total,
                          completed_tasks |-> completed,
                          in_progress_tasks |->
                              in_progress_tasks(all_tasks, local_tasks),
                          todo_tasks |-> todo_tasks(all_tasks, local_tasks),
                          progress_percentage |->
                              progress_percentage(total, completed)])

\* The inputs of the statistics.
SeqsUpTo(S, n) == UNION {[1..k -> S] : k \in 0..n}

DbStatuses ==
    {JStr("completed"), JStr("Completed"), JStr("in_progress"), JStr("todo"),
     JNull}

DbTasks == {JDict(One("status", s)) : s \in DbStatuses}

Flags == {JBool(TRUE), JBool(FALSE), JNull}

ChecklistStatuses == {JStr("completed"), JStr("in_progress"), JNull}

ChecklistTasks ==
    {JDict(NoKeys), JStr("task")}
    \cup {JDict(One("status", s)) : s \in ChecklistStatuses}
    \cup {JDict(One("completed", c)) : c \in Flags}
    \cup {JDict([k \in {"status", "completed"} |->
                   IF k = "status" THEN s ELSE c]) :
            s \in ChecklistStatuses, c \in Flags}

LocalTasks ==
    {JDict(NoKeys), JStr("task")} \cup {JDict(One("completed", c)) : c \in Flags}

\* What json.loads made of the stored localStorage data: nothing stored
\* (None), a mapping, or a list.
LocalTaskLists ==
    {JNull, JDict(One("tasks", JList(<<>>)))}
    \cup {JList(q) : q \in SeqsUpTo(LocalTasks, MaxLocalTasks)}

(***************************************************************************)
(* generate_project_report: the timeline metrics.  A point in time is a    *)
(* number of units since 2024-01-01 00:00:00, UnitsPerDay units to the     *)
(* day: created_at and the current time carry a time of day, a deadline    *)
(* is a date.  A date the project does not have is the empty set.          *)
(***************************************************************************)
UnitsPerDay == 2

Day(n) == n * UnitsPerDay

\* timedelta.days: the whole days of a difference, rounded down.
Days(delta) == delta \div UnitsPerDay

Max(a, b) == IF a >= b THEN a ELSE b

days_elapsed(creation_dt, current_date) ==
    Max(0, Days(current_date - creation_dt))

days_remaining(deadline_dt, current_date) ==
    Max(0, Days(deadline_dt - current_date))

total_duration(creation_dt, deadline_dt) ==
    Max(1, Days(deadline_dt - creation_dt))

\* (days_elapsed / total_duration) * 100
expected_progress(creation_dt, deadline_dt, current_date) ==
    [num |-> days_elapsed(creation_dt, current_date) * 100,
     den |-> total_duration(creation_dt, deadline_dt)]

\* None for the three metrics unless both dates are there.
timeline_metrics(created_at, deadline, current_date) ==
    IF created_at = {} \/ deadline = {}
    THEN [fn |-> "timeline_metrics", dated |-> FALSE]
    ELSE LET creation_dt == CHOOSE t \in created_at : TRUE
             deadline_dt == CHOOSE t \in deadline : TRUE
         IN  [fn |-> "timeline_metrics", dated |-> TRUE,
              days_elapsed |-> days_elapsed(creation_dt, current_date),
              days_remaining |-> days_remaining(deadline_dt, current_date),
              expected_progress |->
                  expected_progress(creation_dt, deadline_dt, current_date)]

(***************************************************************************)
(* generate_project_roadmap: the project statistics of the roadmap         *)
(* context, from the rows of the tasks table.                              *)
(***************************************************************************)
roadmap_context(tasks) ==
    LET total == Len(tasks)
        completed ==
            Cardinality({i \in DOMAIN tasks :
                            tasks[i].d["status"] = JStr("Completed")})
    IN  [fn |-> "roadmap_context", total_tasks |-> total,
         completed_tasks |-> completed,
         completion_percentage |->
             IF total > 0 THEN [num |-> completed * 100, den |-> total]
             ELSE [num |-> 0, den |-> 1]]

(***************************************************************************)
(* generate_project_report: the stored forms of tasks_checklist.  The      *)
(* string is a sequence of pieces, each at least one character long: the   *)
(* two markers, the text of a JSON list, the text of a JSON object, the    *)
(* bullets "- " and "* ", a word and a line break.                         *)
(***************************************************************************)
Pieces == {"___LOCAL_STORAGE_DATA___", "___END_LOCAL_STORAGE___",
           "[{\"completed\": true}]", "{\"tasks\": []}", "- ", "* ", "word",
           "\n"}

StoredList == JList(<<JDict(One("completed", JBool(TRUE)))>>)

StoredObject == JDict(One("tasks", JList(<<>>)))

\* The indices of piece x in string q, and the first of them after index k
\* (0 when there is none).
IndicesOf(q, x) == {i \in DOMAIN q : q[i] = x}

FirstAfter(q, x, k) ==
    IF \E i \in IndicesOf(q, x) : i > k
    THEN CHOOSE i \in IndicesOf(q, x) :
            i > k /\ \A j \in IndicesOf(q, x) : j > k => i <= j
    ELSE 0

\* str.strip(), for what json.loads skips: line breaks at the two ends.
RECURSIVE Strip(_)
Strip(q) ==
    IF q = <<>> THEN q
    ELSE IF q[1] = "\n" THEN Strip(Tail(q))
    ELSE IF q[Len(q)] = "\n" THEN Strip(SubSeq(q, 1, Len(q) - 1))
    ELSE q

\* json.loads(q)
JsonLoads(q) ==
    IF Strip(q) = <<"[{\"completed\": true}]">> THEN Ok(StoredList)
    ELSE IF Strip(q) = <<"{\"tasks\": []}">> THEN Ok(StoredObject)
    ELSE Raise("JSONDecodeError")

\* tasks_checklist.split('\n')
RECURSIVE SplitLines(_)
SplitLines(q) ==
    LET i == FirstAfter(q, "\n", 0)
    IN  IF i = 0 THEN <<q>>
        ELSE <<SubSeq(q, 1, i - 1)>> \o SplitLines(SubSeq(q, i + 1, Len(q)))

\* The task of a line of plain text, if it makes one: the line starts with a
\* bullet and has text after it.
IsTaskLine(line) == Len(line) > 1 /\ line[1] \in {"- ", "* "}

TextTask(line) ==
    JDict([k \in {"title", "completed"} |->
             IF k = "title" THEN JStr("task_text") ELSE JBool(FALSE)])

RECURSIVE TextTasks(_)
TextTasks(lines) ==
    IF lines = <<>> THEN <<>>
    ELSE (IF IsTaskLine(Head(lines)) THEN <<TextTask(Head(lines))>> ELSE <<>>)
         \o TextTasks(Tail(lines))

\* tasks_from_checklist, as the try block that parses tasks_checklist
\* leaves it.
tasks_from_checklist(tasks_checklist) ==
    IF tasks_checklist = <<>> THEN <<>>
    ELSE LET parsed_checklist == JsonLoads(tasks_checklist)
         IN  IF parsed_checklist.ok
             THEN IF parsed_checklist.v.t = "list"
                  THEN parsed_checklist.v.q ELSE <<>>
             ELSE TextTasks(SplitLines(tasks_checklist))

\* local_tasks, from the localStorage data embedded in tasks_checklist (no
\* user_local_storage table).  The pieces being non-empty,
\* start_idx > len(localStorage_marker) says that the marker is not the
\* first piece.
embedded_local_tasks(checklist_str) ==
    LET marker == FirstAfter(checklist_str, "___LOCAL_STORAGE_DATA___", 0)
        start_idx == marker + 1
        end_idx == FirstAfter(checklist_str, "___END_LOCAL_STORAGE___", marker)
    IN  IF marker = 0 THEN JNull
        ELSE IF marker > 1 /\ end_idx > start_idx
        THEN LET local_storage_json ==
                     JsonLoads(SubSeq(checklist_str, start_idx, end_idx - 1))
             IN  IF local_storage_json.ok THEN local_storage_json.v ELSE JNull
        ELSE JNull

parse_checklist(tasks_checklist) ==
    [fn |-> "parse_checklist",
     tasks_from_checklist |-> tasks_from_checklist(tasks_checklist),
     local_tasks |-> embedded_local_tasks(tasks_checklist)]

(***************************************************************************)
(* generate_project_report: what the report says about the schedule, from  *)
(* progress_percentage and the timeline metrics.                           *)
(***************************************************************************)
\* a < b and a + k, for quotients a and b and an integer k.
Below(a, b) == a.num * b.den < b.num * a.den

Shift(a, k) == [num |-> a.num + k * a.den, den |-> a.den]

Whole(n) == [num |-> n, den |-> 1]

StatusIgnoresDeadline(progress, m) ==
    IF ~m.dated THEN "On Track"
    ELSE IF Below(progress, Shift(m.expected_progress, -10))
    THEN "Behind Schedule"
    ELSE IF Below(Shift(m.expected_progress, 10), progress)
    THEN "Ahead of Schedule"
    ELSE "On Track"

\* project_status, from its default to the end of the try block; m is the
\* timeline metrics.
project_status(progress, m) ==
    IF ~m.dated THEN "On Track"
    ELSE IF m.days_remaining > 0
    THEN IF Below(progress, Shift(m.expected_progress, -10))
         THEN "Behind Schedule"
         ELSE IF Below(Shift(m.expected_progress, 10), progress)
         THEN "Ahead of Schedule"
         ELSE "On Track"
    ELSE IF Below(progress, Whole(100)) THEN "Overdue" ELSE "Completed"

\* days_elapsed * (100 / progress_percentage)
total_estimated_days(progress, m) ==
    [num |-> m.days_elapsed * 100 * progress.den, den |-> progress.num]

\* int(max(0, total_estimated_days - days_elapsed - days_remaining))
additional_days_needed(progress, m) ==
    LET d == Shift(total_estimated_days(progress, m),
                   0 - m.days_elapsed - m.days_remaining)
    IN  IF d.num > 0 THEN d.num \div d.den ELSE 0

NoCompletion == [said |-> "nothing", days |-> 0]

\* The Estimated Completion paragraph of the timeline section.
estimated_completion(progress, m) ==
    IF ~m.dated THEN NoCompletion
    ELSE IF m.expected_progress.num > 0 /\ progress.num > 0
            /\ m.days_remaining > 0
    THEN IF additional_days_needed(progress, m) > 0
         THEN [said |-> "additional days beyond the deadline",
               days |-> additional_days_needed(progress, m)]
         ELSE [said |-> "days before the deadline", days |-> 0]
    ELSE NoCompletion

\* if progress_percentage < 50 and days_remaining and
\*    days_remaining < (days_elapsed + days_remaining) / 3
scope_insight(progress, m) ==
    /\ Below(progress, Whole(50))
    /\ m.dated
    /\ m.days_remaining # 0
    /\ 3 * m.days_remaining < m.days_elapsed + m.days_remaining

timeline_report(progress, created_at, deadline, current_date) ==
    LET m == timeline_metrics(created_at, deadline, current_date)
    IN  [fn |-> "timeline_report", metrics |-> m,
         project_status |-> project_status(progress, m),
         estimated_completion |-> estimated_completion(progress, m),
         scope_insight |-> scope_insight(progress, m)]

Progresses ==
    UNION {{progress_percentage(t, c) : c \in 0..t} : t \in 0..MaxProgressTasks}

CreationTimes == {Day(0), Day(0) + 1, Day(2)}

Deadlines == {Day(0), Day(1), Day(2), Day(30)}

CurrentTimes ==
    0..Day(3) \cup {Day(15), Day(15) + 1, Day(25), Day(30) + 1, Day(60)}

InitReport ==
    /\ db = EmptyDb
    /\ now = 0
    /\ tokens = {}
    /\ reqs = NoReqs
    /\ last = NoAnswer
    /\ norm_in = <<>>
    /\ norm_out = <<>>
    /\ \/ call \in [fn : {"task_statistics"},
                    tasks_from_db : SeqsUpTo(DbTasks, MaxDbTasks),
                    tasks_from_checklist :
                        SeqsUpTo(ChecklistTasks, MaxChecklistTasks),
                    local_tasks : LocalTaskLists]
       \/ call \in [fn : {"timeline_metrics"},
                    created_at : {{}} \cup {{t} : t \in CreationTimes},
                    deadline : {{}} \cup {{t} : t \in Deadlines},
                    current_date : CurrentTimes]
       \/ call \in [fn : {"roadmap_context"},
                    tasks : SeqsUpTo(DbTasks, MaxDbTasks)]
       \/ call \in [fn : {"parse_checklist"},
                    tasks_checklist : SeqsUpTo(Pieces, MaxPieces)]
       \/ call \in [fn : {"timeline_report"},
                    progress_percentage : Progresses,
                    created_at : {{}} \cup {{t} : t \in CreationTimes},
                    deadline : {{}} \cup {{t} : t \in Deadlines},
                    current_date : CurrentTimes]
    /\ result = NoCall

TaskStatistics ==
    /\ result = NoCall
    /\ call.fn = "task_statistics"
    /\ result' = task_statistics(call.tasks_from_db, call.tasks_from_checklist,
                                 call.local_tasks)
    /\ UNCHANGED <<db, now, tokens, reqs, last, norm_in, norm_out, call>>

TimelineMetrics ==
    /\ result = NoCall
    /\ call.fn = "timeline_metrics"
    /\ result' = timeline_metrics(call.created_at, call.deadline,
                                  call.current_date)
    /\ UNCHANGED <<db, now, tokens, reqs, last, norm_in, norm_out, call>>

TimelineReport ==
    /\ result = NoCall
    /\ call.fn = "timeline_report"
    /\ result' = timeline_report(call.progress_percentage, call.created_at,
                                 call.deadline, call.current_date)
    /\ UNCHANGED <<db, now, tokens, reqs, last, norm_in, norm_out, call>>

ParseChecklist ==
    /\ result = NoCall
    /\ call.fn = "parse_checklist"
    /\ result' = parse_checklist(call.tasks_checklist)
    /\ UNCHANGED <<db, now, tokens, reqs, last, norm_in, norm_out, call>>

RoadmapContext ==
    /\ result = NoCall
    /\ call.fn = "roadmap_context"
    /\ result' = roadmap_context(call.tasks)
    /\ UNCHANGED <<db, now, tokens, reqs, last, norm_in, norm_out, call>>

NextReport ==
    \/ TaskStatistics \/ TimelineMetrics \/ TimelineReport \/ ParseChecklist
    \/ RoadmapContext

SpecReport == InitReport /\ [][NextReport]_vars

(***************************************************************************)
(* utils/db.py: one call of execute_query, step by step.  call holds what  *)
(* the database will do to the call (whether the connection is made, the   *)
(* statement executes, it returns rows, commit and rollback go through),   *)
(* result holds the call's position, its connection, its transaction, the  *)
(* connection methods called so far and whether its write is visible to    *)
(* other connections.                                                      *)
(***************************************************************************)
QueryStart ==
    [fn |-> "execute_query", pc |-> "connect", conn |-> "none",
     txn |-> "none", log |-> <<>>, visible |-> FALSE, ending |-> "none"]

\* One step of the call in state s; after is where the call goes once the
\* except clause has run.
execute_query_path(plan, s, after) ==
    CASE s.pc = "connect" ->
           IF plan.connects
           THEN [s EXCEPT !.pc = "execute", !.conn = "open"]
           ELSE [s EXCEPT !.pc = "done", !.ending = "raise"]
      [] s.pc = "execute" ->
           IF plan.executes
           THEN [s EXCEPT !.pc = IF plan.fetch THEN "fetchall" ELSE "commit",
                          !.txn = "pending"]
           ELSE [s EXCEPT !.pc = "rollback", !.txn = "pending"]
      [] s.pc = "fetchall" ->
           IF plan.returns_rows
           THEN [s EXCEPT !.pc = "commit"]
           ELSE [s EXCEPT !.pc = "rollback"]
      [] s.pc = "commit" ->
           IF plan.commits
           THEN [s EXCEPT !.pc = "close", !.txn = "committed",
                          !.visible = TRUE, !.ending = "return",
                          !.log = Append(@, "commit")]
           ELSE [s EXCEPT !.pc = "rollback", !.log = Append(@, "commit raised")]
      [] s.pc = "rollback" ->
           IF plan.rolls_back
           THEN [s EXCEPT !.pc = after, !.txn = "rolled back",
                          !.ending = "raise", !.log = Append(@, "rollback")]
           ELSE [s EXCEPT !.pc = after, !.ending = "raise",
                          !.log = Append(@, "rollback raised")]
      [] s.pc = "close" ->
           [s EXCEPT !.pc = "done", !.conn = "closed",
                     !.txn = IF @ = "pending" THEN "rolled back" ELSE @,
                     !.log = Append(@, "close")]

ExceptSkipsFinally(plan, s) == execute_query_path(plan, s, "done")

execute_query(plan, s) == execute_query_path(plan, s, "close")

InitQuery ==
    /\ db = EmptyDb
    /\ now = 0
    /\ tokens = {}
    /\ reqs = NoReqs
    /\ last = NoAnswer
    /\ norm_in = <<>>
    /\ norm_out = <<>>
    /\ call \in [fn : {"execute_query"}, fetch : BOOLEAN, connects : BOOLEAN,
                 executes : BOOLEAN, returns_rows : BOOLEAN,
                 commits : BOOLEAN, rolls_back : BOOLEAN]
    /\ result = QueryStart

QueryStep(pc) ==
    /\ result.pc = pc
    /\ result' = execute_query(call, result)
    /\ UNCHANGED <<db, now, tokens, reqs, last, norm_in, norm_out, call>>

get_db_connection == QueryStep("connect")
CurExecute == QueryStep("execute")
CurFetchall == QueryStep("fetchall")
ConnCommit == QueryStep("commit")
ConnRollback == QueryStep("rollback")
ConnClose == QueryStep("close")

NextQuery ==
    \/ get_db_connection \/ CurExecute \/ CurFetchall
    \/ ConnCommit \/ ConnRollback \/ ConnClose

SpecQuery == InitQuery /\ [][NextQuery]_vars

(***************************************************************************)
(* Properties of the organization workload (Spec).                         *)
(***************************************************************************)
ProjectsOf(d, o) == {p.id : p \in {q \in d.projects : q.organization_id = o}}

AdminsOf(d, o) ==
    {m.user_id : m \in {x \in d.organization_members :
                           x.organization_id = o /\ x.role = "admin"}}

ManagersOf(d, p) ==
    {m.user_id : m \in {x \in d.project_members :
                           x.project_id = p /\ x.role = "manager"}}

\* What is left of d once organization o, its projects, their tasks and all
\* their member rows are taken out.
WithoutOrganization(d, o) ==
    [d EXCEPT
       !.organizations = {x \in @ : x.id # o},
       !.organization_members = {m \in @ : m.organization_id # o},
       !.projects = {p \in @ : p.organization_id # o},
       !.project_members = {m \in @ : m.project_id \notin ProjectsOf(d, o)},
       !.tasks = {k \in @ : k.project_id \notin ProjectsOf(d, o)}]

\* C1: a delete_organization(org) that an admin of org runs to completion
\* leaves no organization row of org, no project of org, no task and no
\* project_members row of those projects and no organization_members row of
\* org, and leaves every other row as it was.
C1_DeleteOrganizationCascades ==
    [][(last'.op = "delete_organization" /\ last'.status = 200)
        => /\ last'.user \in AdminsOf(db, last'.id)
           /\ db' = WithoutOrganization(db, last'.id)
           /\ \A x \in db'.organizations : x.id # last'.id
           /\ \A p \in db'.projects : p.organization_id # last'.id
           /\ \A m \in db'.organization_members : m.organization_id # last'.id
           /\ \A k \in db'.tasks : k.project_id \notin ProjectsOf(db, last'.id)
           /\ \A m \in db'.project_members :
                 m.project_id \notin ProjectsOf(db, last'.id)]_vars

\* A delete_organization has removed an organization with a project, a task
\* and their member rows, and another organization with a project remains.
C1_Witness ==
    /\ last.op = "delete_organization"
    /\ last.status = 200
    /\ last.removed >= 5
    /\ db.organizations # {}
    /\ db.projects # {}
    /\ db.project_members # {}

\* C10: update_organization and delete_organization asked by a user without
\* an admin row for that organization answer 403 and change no table; an
\* organization row changes or disappears only by the request of one of its
\* admins.
C10_OnlyAdminsChangeOrganizations ==
    [][/\ (last'.op \in {"update_organization", "delete_organization"}
           /\ last'.user \notin AdminsOf(db, last'.id))
          => (last'.status = 403 /\ db' = db)
       /\ \A o \in db.organizations :
             o \notin db'.organizations
             => /\ last'.op \in {"update_organization", "delete_organization"}
                /\ last'.id = o.id
                /\ last'.status = 200
                /\ last'.user \in AdminsOf(db, o.id)]_vars

\* A user who is no admin of an existing organization asked to delete it and
\* was refused.
C10_Witness ==
    /\ last.op = "delete_organization"
    /\ last.status = 403
    /\ \E o \in db.organizations :
          /\ o.id = last.id
          /\ AdminsOf(db, o.id) # {}
          /\ last.user \notin AdminsOf(db, o.id)
    /\ \E u \in db.users : u.id = last.user

\* C2: every task names an existing project, every member row an existing
\* project / organization and an existing user, every assignment an existing
\* user.
C2_ReferentialIntegrity ==
    /\ \A k \in db.tasks :
          /\ \E p \in db.projects : p.id = k.project_id
          /\ k.assigned_to # NULL => \E u \in db.users : u.id = k.assigned_to
    /\ \A m \in db.project_members :
          /\ \E p \in db.projects : p.id = m.project_id
          /\ \E u \in db.users : u.id = m.user_id
    /\ \A m \in db.organization_members :
          /\ \E o \in db.organizations : o.id = m.organization_id
          /\ \E u \in db.users : u.id = m.user_id

(***************************************************************************)
(* Properties of the account workloads (SpecAccount, SpecCrash).           *)
(***************************************************************************)
ProjectGone(d, p) ==
    /\ \A x \in d.projects : x.id # p
    /\ \A k \in d.tasks : k.project_id # p
    /\ \A m \in d.project_members : m.project_id # p

OrgGone(d, e, o) ==
    /\ \A x \in e.organizations : x.id # o
    /\ \A m \in e.organization_members : m.organization_id # o
    /\ \A p \in e.projects : p.organization_id # o
    /\ \A p \in ProjectsOf(d, o) : ProjectGone(e, p)

\* C3: a delete_account(u) that runs to completion removes the user row of
\* u, every assignment to u and every member row of u; every project u was
\* the only manager of and every organization u was the only admin of is
\* gone with its projects, tasks and member rows; and no organization or
\* project that remains has lost its last admin / manager.
C3_DeleteAccountCascades ==
    [][(last'.op = "delete_account" /\ last'.status = 200)
        => /\ \A x \in db'.users : x.id # last'.user
           /\ \A k \in db'.tasks : k.assigned_to # last'.user
           /\ \A m \in db'.project_members : m.user_id # last'.user
           /\ \A m \in db'.organization_members : m.user_id # last'.user
           /\ \A p \in db.projects :
                 ManagersOf(db, p.id) = {last'.user} => ProjectGone(db', p.id)
           /\ \A o \in db.organizations :
                 AdminsOf(db, o.id) = {last'.user} => OrgGone(db, db', o.id)
           /\ \A p \in db'.projects :
                 ManagersOf(db', p.id) = {} => ManagersOf(db, p.id) = {}
           /\ \A o \in db'.organizations :
                 AdminsOf(db', o.id) = {} => AdminsOf(db, o.id) = {}
           /\ db'.users = {x \in db.users : x.id # last'.user}]_vars

\* A delete_account has removed a user with an organization, a project and a
\* task of their own, and another user's rows remain, a task among them.
C3_Witness ==
    /\ last.op = "delete_account"
    /\ last.status = 200
    /\ last.removed >= 6
    /\ db.users # {}
    /\ db.organizations # {}
    /\ db.tasks # {}

ProjectWhole(d, e, p) ==
    /\ \E x \in e.projects : x.id = p
    /\ {k.id : k \in {x \in e.tasks : x.project_id = p}}
         = {k.id : k \in {x \in d.tasks : x.project_id = p}}
    /\ {m \in e.project_members : m.project_id = p}
         = {m \in d.project_members : m.project_id = p}

OrgWhole(d, e, o) ==
    /\ \E x \in e.organizations : x.id = o
    /\ {m \in e.organization_members : m.organization_id = o}
         = {m \in d.organization_members : m.organization_id = o}
    /\ ProjectsOf(e, o) = ProjectsOf(d, o)
    /\ \A p \in ProjectsOf(d, o) : ProjectWhole(d, e, p)

\* C4: when a statement of the delete_account cascade raises, every project
\* and every organization is either still there with all of its tasks and
\* member rows or removed completely.
C4_CascadeIsAllOrNothing ==
    [][(last'.op = "delete_account" /\ last'.crashed)
        => /\ \A p \in db.projects :
                 ProjectWhole(db, db', p.id) \/ ProjectGone(db', p.id)
           /\ \A o \in db.organizations :
                 OrgWhole(db, db', o.id) \/ OrgGone(db, db', o.id)]_vars

(***************************************************************************)
(* Properties of the authentication workloads (SpecAuth, SpecConc).        *)
(***************************************************************************)
\* C6: a signup with an email some user row holds answers 400 "Email
\* already registered", issues no token and leaves the users table as it
\* was.
C6_DuplicateSignupRejected ==
    [][(last'.op = "signup" /\ \E u \in db.users : u.email = last'.email)
        => /\ last'.status = 400
           /\ last'.msg = "Email already registered"
           /\ last'.token = {}
           /\ tokens' = tokens
           /\ db' = db]_vars

\* A signup was refused for an email a user row holds.
C6_Witness ==
    /\ last.op = "signup"
    /\ last.status = 400
    /\ \E u \in db.users : u.email = last.email

\* C7: no two user rows hold the same email.
C7_EmailsAreUnique ==
    \A u \in db.users : \A v \in db.users : u.id # v.id => u.email # v.email

\* C8: a login with an unknown email and a login with a known email and a
\* password none of its rows accepts get the same response, 401 "Invalid
\* credentials" without a token, and change nothing.
C8_LoginFailuresAlike ==
    [][(last'.op = "login"
        /\ \A u \in db.users :
              u.email = last'.email
              => u.password_hash # hash_password(last'.password))
        => /\ last'.status = 401
           /\ last'.msg = "Invalid credentials"
           /\ last'.token = {}
           /\ tokens' = tokens
           /\ db' = db]_vars

\* A login with a known email and a wrong password was refused.
C8_Witness ==
    /\ last.op = "login"
    /\ last.status = 401
    /\ \E u \in db.users :
          u.email = last.email /\ u.password_hash # hash_password(last.password)

\* C9: a request to a protected route is answered 401, and changes nothing,
\* when its header is missing, malformed, forged or expired; a request the
\* decorator lets through carries a signed token that has not expired.
C9_TokenRequired ==
    [][(last'.op \in ProtectedOps)
        => /\ (last'.hkind # "signed" \/ last'.exp <= now)
                => (last'.status = 401 /\ db' = db /\ tokens' = tokens)
           /\ last'.status # 401
                => (last'.hkind = "signed" /\ now < last'.exp)]_vars

\* A protected request with an expired token (signed, issued by the server)
\* was answered 401.
C9_Witness ==
    /\ last.op \in ProtectedOps
    /\ last.hkind = "signed"
    /\ last.exp <= now
    /\ last.status = 401
    /\ db.users # {}

(***************************************************************************)
(* Properties of the task normalisation (SpecNorm).                        *)
(***************************************************************************)
\* C5: every normalized task has status "completed" exactly when its
\* completed flag is true.
C5_StatusAgreesWithCompleted ==
    \A i \in DOMAIN norm_out :
        norm_out[i].status = "completed" <=> norm_out[i].completed = {TRUE}

(***************************************************************************)
(* Properties of the organization reads (SpecRead).                        *)
(***************************************************************************)
MemberOrgs(d, u) ==
    {o \in d.organizations :
        \E m \in d.organization_members :
            m.organization_id = o.id /\ m.user_id = u}

\* C11: get_organization answers with the organization exactly when the
\* requesting user has a membership row in it, and with 404 otherwise;
\* get_organizations answers with exactly the organizations the requesting
\* user has a membership row in; neither changes the database.
C11_OrganizationReadsAreForMembers ==
    [][/\ last'.op = "get_organization"
            => /\ db' = db
               /\ IF \E o \in MemberOrgs(db, last'.user) : o.id = last'.id
                  THEN /\ last'.status = 200
                       /\ last'.body
                            = {o \in db.organizations : o.id = last'.id}
                  ELSE /\ last'.status = 404
                       /\ last'.body = {}
       /\ last'.op = "get_organizations"
            => /\ db' = db
               /\ last'.status = 200
               /\ last'.body = MemberOrgs(db, last'.user)]_vars

\* A user who is a member of one organization was refused another user's
\* organization, which exists.
C11_Witness ==
    /\ last.op = "get_organization"
    /\ last.status = 404
    /\ MemberOrgs(db, last.user) # {}
    /\ \E o \in db.organizations : o.id = last.id

(***************************************************************************)
(* Properties of the project workload (SpecProject).                       *)
(***************************************************************************)
\* C12: a create_project request for an organization that exists, from a
\* user who has no membership row in it, creates no project row and no
\* project_members row.
C12_NonMemberCreatesNothing ==
    [][(/\ last'.op = "create_project"
        /\ \E o \in db.organizations : o.id = last'.id
        /\ \A o \in MemberOrgs(db, last'.user) : o.id # last'.id)
        => /\ db'.projects = db.projects
           /\ db'.project_members = db.project_members]_vars

WithoutProject(d, p) ==
    [d EXCEPT !.projects = {x \in @ : x.id # p},
              !.tasks = {k \in @ : k.project_id # p},
              !.project_members = {m \in @ : m.project_id # p}]

\* C13: delete_project(p) by a user without a manager row for p answers 403
\* and changes nothing; by a manager of p it removes the project row, the
\* tasks of p and the member rows of p, and nothing else.
C13_DeleteProjectCascades ==
    [][(last'.op = "delete_project")
        => IF last'.user \in ManagersOf(db, last'.id)
           THEN /\ last'.status = 200
                /\ db' = WithoutProject(db, last'.id)
           ELSE /\ last'.status = 403
                /\ db' = db]_vars

\* A manager has deleted a project with a task, and another project and a
\* task remain.
C13_Witness ==
    /\ last.op = "delete_project"
    /\ last.status = 200
    /\ last.removed >= 3
    /\ db.projects # {}
    /\ db.tasks # {}

(***************************************************************************)
(* Properties of the task workload (SpecTask).                             *)
(***************************************************************************)
OtherTablesUnchanged(d, e) ==
    /\ e.users = d.users
    /\ e.organizations = d.organizations
    /\ e.organization_members = d.organization_members
    /\ e.projects = d.projects
    /\ e.project_members = d.project_members

\* C14: create_task without a title, or with an empty one, answers 400
\* "Task title is required" and inserts nothing; with a title it inserts
\* exactly one task, in the project of the path, whose status, priority,
\* phase_order and task_order are those of the payload, and "todo",
\* "medium", 0 and 0 where the payload has none.
C14_CreateTaskDefaults ==
    [][(last'.op = "create_task")
        => IF last'.a.title \in {Absent, ""}
           THEN /\ last'.status = 400
                /\ last'.msg = "Task title is required"
                /\ db' = db
           ELSE /\ last'.status = 201
                /\ OtherTablesUnchanged(db, db')
                /\ \E k \in db'.tasks :
                      /\ k \notin db.tasks
                      /\ db'.tasks = db.tasks \cup {k}
                      /\ \A x \in db.tasks : x.id # k.id
                      /\ k.project_id = last'.id
                      /\ k.title = last'.a.title
                      /\ k.status = IF last'.a.status = Absent THEN "todo"
                                    ELSE last'.a.status
                      /\ k.priority = IF last'.a.priority = Absent
                                      THEN "medium" ELSE last'.a.priority
                      /\ k.phase_order = IF last'.a.phase_order = {} THEN 0
                                         ELSE GetOr(last'.a.phase_order, 0)
                      /\ k.task_order = IF last'.a.task_order = {} THEN 0
                                        ELSE GetOr(last'.a.task_order, 0)]_vars

\* A task was created from a payload with a priority and no status, and
\* holds the default status next to the given priority.
C14_Witness ==
    /\ last.op = "create_task"
    /\ last.status = 201
    /\ last.a.status = Absent
    /\ last.a.priority = "high"
    /\ \E k \in db.tasks :
          k.status = "todo" /\ k.priority = "high" /\ k.phase_order = 0

\* C15: update_task with a payload that has no title answers with the
\* validation error (400) and leaves the database unchanged.
C15_UpdateWithoutTitleIsValidationError ==
    [][(last'.op = "update_task" /\ last'.a.title = Absent)
        => /\ last'.status = 400
           /\ db' = db]_vars

(***************************************************************************)
(* Properties of the concurrent task updates (SpecTaskConc).               *)
(***************************************************************************)
\* A text column after an update whose payload has v for it (or no such key).
TextCol(new, old, v) == new = IF v = Absent THEN old ELSE v

\* The same for a numeric column; v is the set of the payload's value.
NumCol(new, old, v) == IF v = {} THEN new = old ELSE new \in v

\* Row e is row k after an update with payload a at time t.
Updated(k, e, a, t) ==
    /\ e.id = k.id
    /\ e.project_id = k.project_id
    /\ e.estimated_duration = k.estimated_duration
    /\ e.title = a.title
    /\ e.updated_at = {t}
    /\ TextCol(e.description, k.description, a.description)
    /\ TextCol(e.status, k.status, a.status)
    /\ TextCol(e.priority, k.priority, a.priority)
    /\ TextCol(e.deadline, k.deadline, a.deadline)
    /\ TextCol(e.phase_name, k.phase_name, a.phase_name)
    /\ NumCol(e.assigned_to, k.assigned_to, a.assigned_to)
    /\ NumCol(e.phase_order, k.phase_order, a.phase_order)
    /\ NumCol(e.task_order, k.task_order, a.task_order)

\* C16: an update_task with a title that passes the decorator changes, on
\* the addressed task only, the title, updated_at and the columns whose
\* keys the payload has; every other column, task and table stays as it
\* was.  Every change of the database is one such update applied whole to
\* the current rows, so concurrent updates leave the rows of a serial order
\* of their statements.
C16_UpdateTaskFrame ==
    [][/\ (last'.op = "update_task" /\ last'.status = 401) => db' = db
       /\ (last'.op = "update_task" /\ last'.a.title # Absent
              /\ last'.status # 401)
            => /\ OtherTablesUnchanged(db, db')
               /\ {k.id : k \in db'.tasks} = {k.id : k \in db.tasks}
               /\ Cardinality(db'.tasks) = Cardinality(db.tasks)
               /\ \A k \in db.tasks :
                     IF k.id = last'.id
                     THEN \E e \in db'.tasks : Updated(k, e, last'.a, now)
                     ELSE k \in db'.tasks
       /\ db' # db => (last'.op = "update_task" /\ last'.status = 200)]_vars

\* Two updates of one task were in flight together and both have run: the
\* task holds the title of the later statement and the description only
\* the earlier one wrote, while the other task is as it was created.
C16_Witness ==
    /\ last.op = "update_task"
    /\ last.status = 200
    /\ last.a.title = "t3"
    /\ last.a.description = Absent
    /\ \A i \in 1..MaxInFlight : reqs[i].op = "idle"
    /\ \E k \in db.tasks :
          /\ k.id = last.id
          /\ k.title = "t3"
          /\ k.description = "d"
          /\ k.updated_at = {1}
    /\ \E k \in db.tasks : k.id # last.id /\ k.updated_at = {}

Reported == call.fn = "task_statistics" /\ result # NoCall /\ result.ok

\* C18: in a report, progress_percentage is 0 when total_tasks is 0, is 100
\* when completed_tasks = total_tasks > 0, always lies between 0 and 100,
\* and completed_tasks + in_progress_tasks + todo_tasks = total_tasks.
C18_ProgressWithinBounds ==
    Reported =>
        LET s == result.v
            p == s.progress_percentage
        IN  /\ s.total_tasks = 0 => p.num = 0
            /\ (s.completed_tasks = s.total_tasks /\ s.total_tasks > 0)
                  => p.num = 100 * p.den
            /\ p.den > 0
            /\ 0 <= p.num
            /\ p.num <= 100 * p.den
            /\ s.completed_tasks + s.in_progress_tasks + s.todo_tasks
                  = s.total_tasks

\* A report over the localStorage list, longer than the list of persisted
\* tasks, with every entry completed: 100 percent of two tasks.
C18_Witness ==
    /\ Reported
    /\ UsesLocalTasks(call.local_tasks)
    /\ Len(call.tasks_from_db) + Len(call.tasks_from_checklist) = 1
    /\ result.v.total_tasks = 2
    /\ result.v.completed_tasks = 2
    /\ result.v.progress_percentage.num = 100 * result.v.progress_percentage.den

\* The persisted tasks and the checklist tasks of the call, in the order of
\* the report.
CalledTasks == call.tasks_from_db \o call.tasks_from_checklist

HasKey(task, key) == task.t = "dict" /\ key \in DOMAIN task.d

\* The one counter a task belongs to: by its status if it has one, else by
\* its completed flag, else todo.
CounterOf(task) ==
    IF HasKey(task, "status")
    THEN CASE task.d["status"] = JStr("completed") -> "completed"
           [] task.d["status"] = JStr("in_progress") -> "in_progress"
           [] OTHER -> "todo"
    ELSE IF HasKey(task, "completed") /\ task.d["completed"] = JBool(TRUE)
    THEN "completed"
    ELSE "todo"

Counted(c) ==
    Cardinality({i \in DOMAIN CalledTasks : CounterOf(CalledTasks[i]) = c})

\* C19: when the localStorage list is a non-empty list, the counts of the
\* report come from it alone: total is its length, completed the number of
\* its entries whose completed is true, in_progress is 0 and todo is total
\* minus completed, whatever the persisted tasks are; otherwise every
\* persisted or checklist task is counted once, by its status if it has one,
\* else by its completed flag, else as todo.
C19_LocalTasksAreAuthoritative ==
    Reported =>
        LET s == result.v
            lt == call.local_tasks
        IN  IF lt.t = "list" /\ Len(lt.q) > 0
            THEN /\ s.total_tasks = Len(lt.q)
                 /\ s.completed_tasks =
                       Cardinality({i \in DOMAIN lt.q :
                           /\ HasKey(lt.q[i], "completed")
                           /\ lt.q[i].d["completed"] = JBool(TRUE)})
                 /\ s.in_progress_tasks = 0
                 /\ s.todo_tasks = s.total_tasks - s.completed_tasks
            ELSE /\ s.total_tasks = Len(CalledTasks)
                 /\ s.completed_tasks = Counted("completed")
                 /\ s.in_progress_tasks = Counted("in_progress")
                 /\ s.todo_tasks = Counted("todo")

\* A report whose localStorage list has one completed entry of two, while
\* the two persisted tasks are both in progress.
C19_Witness ==
    /\ Reported
    /\ call.local_tasks.t = "list"
    /\ Len(call.local_tasks.q) = 2
    /\ call.tasks_from_db =
          <<JDict(One("status", JStr("in_progress"))),
            JDict(One("status", JStr("in_progress")))>>
    /\ result.v.total_tasks = 2
    /\ result.v.completed_tasks = 1
    /\ result.v.in_progress_tasks = 0
    /\ result.v.todo_tasks = 1

\* C20: whenever the project has both dates, days_elapsed is
\* max(0, now - created) in whole days, days_remaining is
\* max(0, deadline - now) in whole days, and expected_progress is
\* days_elapsed / max(1, days_elapsed + days_remaining) * 100, hence between
\* 0 and 100; created 2024-01-01, deadline 2024-01-31 and now 2024-01-16
\* give 15, 15 and 50.
C20_TimelineMetrics ==
    (call.fn = "timeline_metrics" /\ result # NoCall /\ result.dated) =>
        LET created == CHOOSE t \in call.created_at : TRUE
            deadline == CHOOSE t \in call.deadline : TRUE
            e == result.days_elapsed
            r == result.days_remaining
            x == result.expected_progress
        IN  /\ e = Max(0, Days(call.current_date - created))
            /\ r = Max(0, Days(deadline - call.current_date))
            /\ x.den > 0
            /\ x.num * Max(1, e + r) = e * 100 * x.den
            /\ 0 <= x.num
            /\ x.num <= 100 * x.den
            /\ (created = Day(0) /\ deadline = Day(30)
                /\ call.current_date = Day(15))
                  => e = 15 /\ r = 15 /\ x.num = 50 * x.den

(***************************************************************************)
(* Properties of what the report says about the schedule (SpecReport).     *)
(***************************************************************************)
ScheduleReported == call.fn = "timeline_report" /\ result # NoCall

BothDates == call.created_at # {} /\ call.deadline # {}

DeadlineOf == CHOOSE t \in call.deadline : TRUE

\* The current time is later than the last moment of the deadline's day.
DeadlinePassed == call.current_date >= DeadlineOf + UnitsPerDay

\* C21: with both dates and the deadline not passed (its day included), the
\* status is Behind Schedule when progress < expected_progress - 10, Ahead
\* of Schedule when progress > expected_progress + 10 and On Track
\* otherwise; Overdue and Completed are not reported before the deadline has
\* passed.
C21_StatusBeforeDeadline ==
    (ScheduleReported /\ BothDates /\ ~DeadlinePassed) =>
        LET p == call.progress_percentage
            x == result.metrics.expected_progress
        IN  /\ result.project_status \notin {"Overdue", "Completed"}
            /\ result.project_status =
                  IF Below(p, Shift(x, -10)) THEN "Behind Schedule"
                  ELSE IF Below(Shift(x, 10), p) THEN "Ahead of Schedule"
                  ELSE "On Track"

\* C22: with both dates and the current time later than the deadline, the
\* status is Completed when progress is exactly 100 and Overdue for every
\* progress below 100; when a date is missing or does not parse, the status
\* stays On Track and no timeline figure is reported.
C22_StatusAfterDeadline ==
    ScheduleReported =>
        LET p == call.progress_percentage
        IN  /\ (BothDates /\ call.current_date > DeadlineOf) =>
                  /\ p.num = 100 * p.den => result.project_status = "Completed"
                  /\ p.num < 100 * p.den => result.project_status = "Overdue"
            /\ ~BothDates =>
                  /\ result.project_status = "On Track"
                  /\ ~result.metrics.dated
                  /\ result.estimated_completion = NoCompletion
                  /\ ~result.scope_insight

\* A project with every task completed, reported a month after its deadline.
C22_Witness ==
    /\ ScheduleReported
    /\ call.deadline = {Day(30)}
    /\ call.current_date = Day(60)
    /\ call.progress_percentage.num = 100 * call.progress_percentage.den
    /\ result.project_status = "Completed"

\* C23: a completion projection is reported exactly when the timeline is
\* available, days_remaining > 0 and progress > 0, days_elapsed = 0
\* included; then additional_days is
\* max(0, days_elapsed * (100 / progress) - days_elapsed - days_remaining)
\* rounded down, reported as that many additional days beyond the deadline
\* when it is positive and as days early otherwise; with no task there is
\* no projection.
C23_CompletionProjection ==
    ScheduleReported =>
        LET p == call.progress_percentage
            m == result.metrics
            c == result.estimated_completion
            total == m.days_elapsed + m.days_remaining
            \* days_elapsed * 100 / progress - total, times progress.num
            over == m.days_elapsed * 100 * p.den - total * p.num
            additional == IF over > 0 THEN over \div p.num ELSE 0
        IN  /\ c # NoCompletion
                  <=> (m.dated /\ m.days_remaining > 0 /\ p.num > 0)
            /\ c # NoCompletion =>
                  IF additional > 0
                  THEN /\ c.said = "additional days beyond the deadline"
                       /\ c.days = additional
                  ELSE c.said = "days before the deadline"
            /\ p.num = 0 => c = NoCompletion

\* C27: the scope-risk insight is in the report exactly when the timeline
\* is available, progress < 50 and days_remaining is less than a third of
\* days_elapsed + days_remaining, days_remaining = 0 included; it is never
\* there without a timeline.
C27_ScopeRiskInsight ==
    ScheduleReported =>
        LET p == call.progress_percentage
            m == result.metrics
        IN  result.scope_insight
               <=> /\ m.dated
                   /\ p.num < 50 * p.den
                   /\ 3 * m.days_remaining < m.days_elapsed + m.days_remaining

(***************************************************************************)
(* Properties of the complexity analysis (SpecAi).                         *)
(***************************************************************************)
\* C24: for every triple of keyword-hit counts the complexity is high when
\* the high keywords hold a majority of the hits, low when the low keywords
\* do, and medium in every other case, every tie and no hit at all
\* included.
C24_ComplexityByMajority ==
    (call.fn = "project_complexity" /\ result # NoCall) =>
        LET h == call.high_count
            m == call.medium_count
            l == call.low_count
            c == result.project_complexity
        IN  /\ c = IF 2 * h > h + m + l THEN "high"
                   ELSE IF 2 * l > h + m + l THEN "low"
                   ELSE "medium"
            /\ (h = m \/ h = l \/ m = l) /\ 2 * h <= h + m + l
                  /\ 2 * l <= h + m + l => c = "medium"
            /\ h + m + l = 0 => c = "medium"

\* The high keywords have the most hits but no majority: medium.
C24_Witness ==
    /\ call.fn = "project_complexity"
    /\ call.high_count = 2
    /\ call.medium_count = 1
    /\ call.low_count = 1
    /\ result # NoCall
    /\ result.project_complexity = "medium"

(***************************************************************************)
(* Properties of execute_query (SpecQuery).                                *)
(***************************************************************************)
Occurs(q, e) == \E i \in DOMAIN q : q[i] = e

\* C25: a call of execute_query that obtained a connection ends in exactly
\* one of two ways, a commit after the statement succeeded and a return, or
\* a rollback and the exception raised again; on either way the connection
\* is closed, so that once the call is over no connection of it is open and
\* no uncommitted write of it is visible.
C25_CommitOrRollbackThenClose ==
    (call.fn = "execute_query" /\ result.pc = "done" /\ result.conn # "none")
        => /\ result.conn = "closed"
           /\ result.log[Len(result.log)] = "close"
           /\ result.txn \in {"committed", "rolled back"}
           /\ result.visible <=> result.txn = "committed"
           /\ \/ /\ result.ending = "return"
                 /\ call.executes
                 /\ call.fetch => call.returns_rows
                 /\ Occurs(result.log, "commit")
                 /\ ~Occurs(result.log, "rollback")
                 /\ ~Occurs(result.log, "rollback raised")
                 /\ result.txn = "committed"
              \/ /\ result.ending = "raise"
                 /\ ~Occurs(result.log, "commit")
                 /\ Occurs(result.log, "rollback")
                       \/ Occurs(result.log, "rollback raised")
                 /\ result.txn = "rolled back"

\* A call whose statement executed and whose commit raised: it was rolled
\* back, the connection is closed and the exception reached the caller.
C25_Witness ==
    /\ call.fn = "execute_query"
    /\ result.pc = "done"
    /\ result.log = <<"commit raised", "rollback", "close">>
    /\ result.ending = "raise"
    /\ result.conn = "closed"
    /\ ~result.visible

(***************************************************************************)
(* Properties of the stored forms of tasks_checklist (SpecReport).         *)
(***************************************************************************)
ChecklistParsed == call.fn = "parse_checklist" /\ result # NoCall

BulletLines(q) ==
    {i \in DOMAIN SplitLines(q) :
        /\ Len(SplitLines(q)[i]) > 1
        /\ SplitLines(q)[i][1] \in {"- ", "* "}}

\* C26: a tasks_checklist that is a JSON list is the checklist task list as
\* it is; plain text gives one task, not completed, for each line that
\* starts with "- " or "* " and has text; and a string in which the start
\* marker is followed by a JSON list and the end marker gives that list as
\* the override list, wherever the start marker stands, the beginning of
\* the string included.
C26_StoredFormsOfChecklist ==
    ChecklistParsed =>
        LET q == call.tasks_checklist
            m == FirstAfter(q, "___LOCAL_STORAGE_DATA___", 0)
        IN  /\ q = <<"[{\"completed\": true}]">>
                  => result.tasks_from_checklist = StoredList.q
            /\ ~JsonLoads(q).ok =>
                  /\ Len(result.tasks_from_checklist)
                        = Cardinality(BulletLines(q))
                  /\ \A i \in DOMAIN result.tasks_from_checklist :
                        result.tasks_from_checklist[i].d["completed"]
                           = JBool(FALSE)
            /\ (m > 0 /\ m + 2 <= Len(q)
                /\ q[m + 1] = "[{\"completed\": true}]"
                /\ q[m + 2] = "___END_LOCAL_STORAGE___")
                  => result.local_tasks = StoredList

(***************************************************************************)
(* Properties of the creator's membership (SpecCrash).                     *)
(***************************************************************************)
\* C28: in every reachable state, the states between the two inserts of
\* create_organization and the state after a failing second insert
\* included, every organization has an organization_members row with role
\* admin.
C28_EveryOrganizationHasAnAdmin ==
    \A o \in db.organizations : AdminsOf(db, o.id) # {}

(***************************************************************************)
(* Properties of tokens of deleted accounts (SpecStale).                   *)
(***************************************************************************)
\* C29: a protected request that passes token validation acts for a user
\* whose row is in the users table at that moment: once delete_account(u)
\* has completed, no request with a token issued to u is carried out for u,
\* so that none writes a row for u.
C29_TokenActsForExistingUser ==
    [][(Protected(last'.op) /\ last'.status \in {200, 201} /\ db' # db)
        => \E u \in db.users : u.id = last'.user]_vars

(***************************************************************************)
(* Properties of the roadmap context (SpecReport).                         *)
(***************************************************************************)
\* C30: for the same persisted tasks, with no checklist task and no
\* localStorage list, the completed-task count and the completion
\* percentage of the roadmap context are the completed_tasks and the
\* progress_percentage of the report: both count the tasks whose status is
\* "completed".
C30_RoadmapAgreesWithReport ==
    (call.fn = "roadmap_context" /\ result # NoCall) =>
        LET report == task_statistics(call.tasks, <<>>, JNull).v
        IN  /\ result.completed_tasks = report.completed_tasks
            /\ result.completion_percentage.num * report.progress_percentage.den
                  = report.progress_percentage.num
                       * result.completion_percentage.den
            /\ result.completed_tasks =
                  Cardinality({i \in DOMAIN call.tasks :
                      call.tasks[i].d["status"] = JStr("completed")})

====
